---- MODULE Spec2Model ----
(***************************************************************************)
(* ATC radar simulator (src/game.js, latest iteration, lines 1996-2833):   *)
(* aircraft kinematics, the radar sweep, the frame loop, the geographic     *)
(* projection and the drawing of the navigation data.                      *)
(*                                                                         *)
(* Units.  JavaScript numbers are modelled as exact fixed-point integers:  *)
(*   time                ms                                                *)
(*   heading, targetHdg  1/1000 degree                                     *)
(*   speed, targetSpd    1/1000 knot                                       *)
(*   altitude, targetAlt 1/1000 foot                                       *)
(*   verticalSpeed       feet per minute                                   *)
(*   lat, lon            1/1000000 degree                                  *)
(*   pixels              1/1000 pixel                                      *)
(* A rate per second times a delta in ms is then exact in 1/1000 units, so *)
(* the comparisons of update() (|diff| < step) are the code's comparisons  *)
(* on the exact values.                                                    *)
(***************************************************************************)
EXTENDS Integers, Sequences, FiniteSets, TLC

VARIABLES
  aircraftList,        \* game.js:2059  sequence of Aircraft records
  lastUpdateTime,      \* game.js:2075
  timeSinceLastSweep,  \* game.js:2076
  canvasSize,          \* navdataCanvas.width = navdataCanvas.height (game.js:2292)
  drawn,               \* what the last frame's draw() calls put on the canvas
  sweepCount,          \* history: number of sweep events fired so far
  lastSweepTime,       \* history: frame timestamp of the last sweep (or of the first frame)
  budget,              \* history: operator commands the model still admits
  hist,                \* history, per aircraft and axis: the latest command, the
                       \* true value at that command (at construction before any)
                       \* and the time update() has run since
  settings,            \* game.js:2011-2019  radarRangeNM and activeAirports
  bounds,              \* game.js:2032  minLon, maxLon, minLat, maxLat
  navData,             \* game.js:2060-2066  the loaded records: runways, ilsData, ...
  navCanvas,           \* what the last drawNavData() put on navdataCanvas
  probe                \* points handed to the projection and what it returned

navVars == <<settings, bounds, navData, navCanvas, probe>>

vars == <<aircraftList, lastUpdateTime, timeSinceLastSweep, canvasSize, drawn,
          sweepCount, lastSweepTime, budget, hist, settings, bounds, navData,
          navCanvas, probe>>

(***************************************************************************)
(* Program constants                                                       *)
(***************************************************************************)
SWEEP_INTERVAL_MS == 2000
Milli == 1000
FullCircle == 360
TurnRate == 2
Accel == 10
VerticalSpeedFPM == 1500
SecondsPerMinute == 60
MinSpeedKt == 100
EarthRadiusKm == 6371
KnotsToKpsE9 == 514444
NmToKmE3 == 1852
KmPerDegLatE2 == 11132
RadarRangeNM == 30
FeetToKmE7 == 3048
ReciprocalOffset == 18
LocalizerNM == 15
TrendThresholdFt == 50
ClickRadiusPx == 15
TagPositions == 6
CenterLat == 45449444
CenterLon == 9278333

(***************************************************************************)
(* Bounds of the model                                                     *)
(***************************************************************************)
MaxTime == 6000
MaxCommands == 1
MaxAircraftCommands == 2
GridSteps == 12
MaxLegs == 4
MaxTagClicks == 2

FirstFrameTimes == {1000}
Deltas == {0, 900, 2100, 4000}
CanvasSizes == {800}
\* texts in the tag input field when Enter is pressed, per edited property
HeadingTexts == {<<"-", "5">>, <<"3", "7", "0">>, <<>>}
SpeedTexts == {<<"5", "0">>, <<" ", "2", "4", "0">>, <<"x", "1">>}
AltitudeTexts == {<<"1", "7", "9">>, <<"1", "8", "1", "a">>, <<"a">>}

(***************************************************************************)
(* Arithmetic helpers                                                      *)
(***************************************************************************)
Abs(x) == IF x < 0 THEN -x ELSE x

\* Math.sign
Sign(x) == IF x > 0 THEN 1 ELSE IF x < 0 THEN -1 ELSE 0

\* JavaScript's % : the remainder takes the sign of the dividend.
JsRem(a, n) == IF a >= 0 THEN a % n ELSE -((-a) % n)

Circle == FullCircle * Milli
HalfCircle == Circle \div 2

\* ((h % 360) + 360) % 360
Normalize(h) == JsRem(JsRem(h, Circle) + Circle, Circle)

Max(a, b) == IF a >= b THEN a ELSE b

Min(a, b) == IF a <= b THEN a ELSE b

\* Division rounding toward zero, as the sign-symmetric real quotient does.
Quot(a, b) == Sign(a) * Sign(b) * (Abs(a) \div Abs(b))

\* Math.round of a value held in 1/unit steps: floor(x/unit + 1/2).
Round(x, unit) == (2 * x + unit) \div (2 * unit)

(***************************************************************************)
(* Trigonometry in fixed point.  Math.sin is evaluated by Bhaskara's       *)
(* rational approximation sin(x) = 4x(180-x) / (40500 - x(180-x)), x in    *)
(* degrees, 0 <= x <= 180 (absolute error below 0.002, exact at 0, 30, 90, *)
(* 150 and 180 degrees), on the angle cut to 1/10 degree; the result is    *)
(* sin * 10000.  Math.cos(x) is sin(x + 90).                               *)
(***************************************************************************)
TrigScale == 10 * Milli

SinHalf(X) == LET p == (X * (1800 - X)) \div 100
              IN  (4 * TrigScale * p) \div (40500 - p)

\* angle in 1/1000 degree, any sign
SinE4(angle) == LET X == Normalize(angle) \div 100
                IN  IF X <= 1800 THEN SinHalf(X) ELSE -SinHalf(X - 1800)

CosE4(angle) == SinE4(angle + (Circle \div 4))

(***************************************************************************)
(* Geographic bounds and projection                                        *)
(***************************************************************************)
\* radarRangeNM * NM_TO_KM, in metres
RadarRangeKmE3(radarRangeNM) == radarRangeNM * NmToKmE3

\* radarRangeKm / 111.32, in 1/1000000 degree
LatDelta(radarRangeNM) ==
  ((RadarRangeKmE3(radarRangeNM) * 10000) \div KmPerDegLatE2) * 10

\* radarRangeKm / (111.32 * Math.cos(centerLatRad)), in 1/1000000 degree
LonDelta(radarRangeNM) ==
  (((LatDelta(radarRangeNM) \div 10) * TrigScale) \div CosE4(CenterLat \div 1000)) * 10

\* the bounding box set by calculateGeographicBounds() for a radar range
calculateGeographicBounds(radarRangeNM) ==
  [minLat |-> CenterLat - LatDelta(radarRangeNM),
   maxLat |-> CenterLat + LatDelta(radarRangeNM),
   minLon |-> CenterLon - LonDelta(radarRangeNM),
   maxLon |-> CenterLon + LonDelta(radarRangeNM)]

minLat == bounds.minLat
maxLat == bounds.maxLat
minLon == bounds.minLon
maxLon == bounds.maxLon

\* the result of a division by zero (NaN, or an infinity): no coordinate
NaN == -(2 ^ 30)

\* (offset / extent) * size in 1/1000 pixel, rounded to the nearest: the
\* quotient is taken digit by digit to stay within 32 bits
ToPixel(offset, extent, size) ==
  LET laps  == offset \div extent
      whole == ((offset % extent) * size) \div extent
      rest  == ((offset % extent) * size) % extent
  IN  (laps * size + whole) * Milli + ((rest * Milli + (extent \div 2)) \div extent)

\* (pixel / size) * extent in 1/1000000 degree, pixel in 1/1000 pixel,
\* rounded to the nearest, digit by digit likewise
FromPixel(pixel, extent, size) ==
  LET whole == ((pixel \div Milli) * extent) \div size
      rest  == ((pixel \div Milli) * extent) % size
      unit  == size * Milli
  IN  whole + ((rest * Milli + (pixel % Milli) * extent + (unit \div 2)) \div unit)

\* Mutant of pixelToLatLon: the latitude grows downward from minLat.
pixelToLatLonFromBottom(x, y, size) ==
  [lon |-> IF size = 0 THEN NaN ELSE FromPixel(x, maxLon - minLon, size) + minLon,
   lat |-> IF size = 0 THEN NaN ELSE minLat + FromPixel(y, maxLat - minLat, size)]

pixelToLatLon(x, y, size) ==
  [lon |-> IF size = 0 THEN NaN ELSE FromPixel(x, maxLon - minLon, size) + minLon,
   lat |-> IF size = 0 THEN NaN ELSE maxLat - FromPixel(y, maxLat - minLat, size)]

latLonToPixel(lat, lon, size) ==
  [x |-> IF maxLon = minLon \/ lon = NaN THEN NaN
         ELSE ToPixel(lon - minLon, maxLon - minLon, size),
   y |-> IF maxLat = minLat \/ lat = NaN THEN NaN
         ELSE ToPixel(maxLat - lat, maxLat - minLat, size)]

(***************************************************************************)
(* class Aircraft                                                          *)
(***************************************************************************)
\* constructor; heading in degrees, altitude in feet, speed in knots
\* Mutant of NewAircraft: the symbol starts pointing north.
NewAircraftNorthUp(callsign, lat, lon, heading, altitude, speed, destination, wtc, size) ==
  LET px == latLonToPixel(lat, lon, size)
  IN  [callsign |-> callsign, lat |-> lat, lon |-> lon,
       destination |-> destination, wtc |-> wtc,
       verticalSpeed |-> 0,
       displayX |-> px.x, displayY |-> px.y,
       displayHdg |-> 0,
       heading |-> heading * Milli, targetHdg |-> heading * Milli,
       altitude |-> altitude * Milli, targetAlt |-> altitude * Milli,
       speed |-> speed * Milli, targetSpd |-> speed * Milli,
       tagAngle |-> 0]

NewAircraft(callsign, lat, lon, heading, altitude, speed, destination, wtc, size) ==
  LET px == latLonToPixel(lat, lon, size)
  IN  [callsign |-> callsign, lat |-> lat, lon |-> lon,
       destination |-> destination, wtc |-> wtc,
       verticalSpeed |-> 0,
       displayX |-> px.x, displayY |-> px.y,
       displayHdg |-> heading * Milli,
       heading |-> heading * Milli, targetHdg |-> heading * Milli,
       altitude |-> altitude * Milli, targetAlt |-> altitude * Milli,
       speed |-> speed * Milli, targetSpd |-> speed * Milli,
       tagAngle |-> 0]

\* Mutant of HeadingDiff: the difference is folded on one side only.
HeadingDiffOneFold(heading, targetHdg) ==
  LET diff == targetHdg - heading
  IN  IF diff > HalfCircle THEN diff - Circle ELSE diff

\* Mutant of HeadingDiff: the difference is never folded, so a turn across
\* north goes the long way round.
HeadingDiffUnfolded(heading, targetHdg) == targetHdg - heading

\* update(), step 1: the signed turn still to make, folded once each way
HeadingDiff(heading, targetHdg) ==
  LET diff  == targetHdg - heading
      diff1 == IF diff > HalfCircle THEN diff - Circle ELSE diff
  IN  IF diff1 < -HalfCircle THEN diff1 + Circle ELSE diff1

\* Mutant of UpdateHeading: the heading is not brought back into 0-360.
UpdateHeadingNoWrap(a, dt) ==
  IF a.heading # a.targetHdg
  THEN LET turnStep == TurnRate * dt
           diff     == HeadingDiff(a.heading, a.targetHdg)
       IN  IF Abs(diff) < turnStep
           THEN a.targetHdg
           ELSE a.heading + turnStep * Sign(diff)
  ELSE a.heading

\* update(), step 1: heading interpolation; dt in ms
UpdateHeading(a, dt) ==
  IF a.heading # a.targetHdg
  THEN LET turnStep == TurnRate * dt
           diff     == HeadingDiff(a.heading, a.targetHdg)
           h        == IF Abs(diff) < turnStep
                       THEN a.targetHdg
                       ELSE a.heading + turnStep * Sign(diff)
       IN  Normalize(h)
  ELSE a.heading

\* Mutant of UpdateSpeed: a full step is taken however little remains.
UpdateSpeedNoSnap(a, dt) ==
  IF a.speed # a.targetSpd
  THEN a.speed + Accel * dt * Sign(a.targetSpd - a.speed)
  ELSE a.speed

\* update(), step 2: speed interpolation
UpdateSpeed(a, dt) ==
  IF a.speed # a.targetSpd
  THEN LET speedStep == Accel * dt
       IN  IF Abs(a.targetSpd - a.speed) < speedStep
           THEN a.targetSpd
           ELSE a.speed + speedStep * Sign(a.targetSpd - a.speed)
  ELSE a.speed

\* Mutant of UpdateAltitude: a full step is taken however little remains.
UpdateAltitudeNoSnap(a, dt) ==
  IF a.altitude # a.targetAlt
  THEN LET altStep == (VerticalSpeedFPM \div SecondsPerMinute) * dt
           direction == Sign(a.targetAlt - a.altitude)
       IN  [altitude |-> a.altitude + altStep * direction,
            verticalSpeed |-> VerticalSpeedFPM * direction]
  ELSE [altitude |-> a.altitude, verticalSpeed |-> 0]

\* update(), step 3: altitude interpolation; gives altitude and verticalSpeed
UpdateAltitude(a, dt) ==
  IF a.altitude # a.targetAlt
  THEN LET verticalSpeedFPS == VerticalSpeedFPM \div SecondsPerMinute
           altStep == verticalSpeedFPS * dt
       IN  IF Abs(a.targetAlt - a.altitude) < altStep
           THEN [altitude |-> a.targetAlt, verticalSpeed |-> 0]
           ELSE LET direction == Sign(a.targetAlt - a.altitude)
                IN  [altitude |-> a.altitude + altStep * direction,
                     verticalSpeed |-> VerticalSpeedFPM * direction]
  ELSE [altitude |-> a.altitude, verticalSpeed |-> 0]
\* Math.PI * 1000 and the degrees of a half turn (x * 180 / Math.PI)
PiE3 == 3142
HalfTurnDeg == FullCircle \div 2

\* 1/1000000 degree of arc flown per knot and second, times 1000:
\* KNOTS_TO_KPS / R radians, turned into degrees
ArcPerKnotSecond == (((KnotsToKpsE9 * HalfTurnDeg) \div EarthRadiusKm) * Milli) \div PiE3

\* distanceMovedKm / R as an angle in 1/1000000 degree; speed in 1/1000 kt, dt in ms
DistanceMoved(speed, dt) ==
  ((((speed \div 10) * dt) \div Milli) * ArcPerKnotSecond) \div (100 * Milli)

(***************************************************************************)
(* update(), step 4: the great-circle step                                 *)
(*   newLat = asin(sin lat cos d + cos lat sin d cos b)                    *)
(*   newLon = lon + atan2(sin b sin d cos lat, cos d - sin lat sin newLat) *)
(* with d = distanceMovedKm / R.  One tick flies d < 0.0001 rad, so both   *)
(* are evaluated to first order in d:  newLat = lat + d cos b  and         *)
(* newLon = lon + d sin b / cos lat.                                       *)
(***************************************************************************)
\* Mutant of UpdatePosition: the bearing is measured from east, not north.
UpdatePositionFromEast(lat, lon, heading, speed, dt) ==
  LET d == DistanceMoved(speed, dt)
  IN  [lat |-> lat + Quot(d * SinE4(heading), TrigScale),
       lon |-> lon + Quot(d * CosE4(heading), CosE4(lat \div Milli))]

UpdatePosition(lat, lon, heading, speed, dt) ==
  LET d == DistanceMoved(speed, dt)
  IN  [lat |-> lat + Quot(d * CosE4(heading), TrigScale),
       lon |-> lon + Quot(d * SinE4(heading), CosE4(lat \div Milli))]

\* Mutant of Update: the display state follows the true state in every tick.
UpdateLiveDisplay(a, dt) ==
  LET h   == UpdateHeading(a, dt)
      s   == UpdateSpeed(a, dt)
      alt == UpdateAltitude(a, dt)
      pos == UpdatePosition(a.lat, a.lon, h, s, dt)
  IN  [a EXCEPT !.heading = h, !.speed = s,
                !.altitude = alt.altitude, !.verticalSpeed = alt.verticalSpeed,
                !.lat = pos.lat, !.lon = pos.lon, !.displayHdg = h]

\* Mutant of Update: the position step comes first, with the heading and
\* speed from before the tick.
UpdatePositionFirst(a, dt) ==
  LET h   == UpdateHeading(a, dt)
      s   == UpdateSpeed(a, dt)
      alt == UpdateAltitude(a, dt)
      pos == UpdatePosition(a.lat, a.lon, a.heading, a.speed, dt)
  IN  [a EXCEPT !.heading = h, !.speed = s,
                !.altitude = alt.altitude, !.verticalSpeed = alt.verticalSpeed,
                !.lat = pos.lat, !.lon = pos.lon]

\* Mutant of Update: the position is held inside the geographic bounds.
UpdateWithinBounds(a, dt) ==
  LET h   == UpdateHeading(a, dt)
      s   == UpdateSpeed(a, dt)
      alt == UpdateAltitude(a, dt)
      pos == UpdatePosition(a.lat, a.lon, h, s, dt)
  IN  [a EXCEPT !.heading = h, !.speed = s,
                !.altitude = alt.altitude, !.verticalSpeed = alt.verticalSpeed,
                !.lat = Max(minLat, Min(maxLat, pos.lat)),
                !.lon = Max(minLon, Min(maxLon, pos.lon))]

\* update(deltaTime): heading, speed, altitude, then position from the new
\* heading and speed
Update(a, dt) ==
  LET h   == UpdateHeading(a, dt)
      s   == UpdateSpeed(a, dt)
      alt == UpdateAltitude(a, dt)
      pos == UpdatePosition(a.lat, a.lon, h, s, dt)
  IN  [a EXCEPT !.heading = h, !.speed = s,
                !.altitude = alt.altitude, !.verticalSpeed = alt.verticalSpeed,
                !.lat = pos.lat, !.lon = pos.lon]

\* Mutant of setHeading: the argument is stored as given.
setHeadingRaw(a, newHeading) == [a EXCEPT !.targetHdg = newHeading * Milli]

\* Mutant of setHeading: the command turns the aircraft at once.
setHeadingAtOnce(a, newHeading) ==
  [a EXCEPT !.targetHdg = Normalize(newHeading * Milli),
            !.heading = Normalize(newHeading * Milli)]

\* setHeading(newHeading), degrees
setHeading(a, newHeading) == [a EXCEPT !.targetHdg = Normalize(newHeading * Milli)]

\* Mutant of setSpeed: the argument is stored without the 100 kt floor.
setSpeedNoFloor(a, newSpeed) == [a EXCEPT !.targetSpd = newSpeed * Milli]

\* Mutant of setSpeed: a command is dropped while a speed capture is under way.
setSpeedUnlessCapturing(a, newSpeed) ==
  IF a.speed # a.targetSpd THEN a
  ELSE [a EXCEPT !.targetSpd = Max(MinSpeedKt, newSpeed) * Milli]

\* setSpeed(newSpeed), knots
setSpeed(a, newSpeed) == [a EXCEPT !.targetSpd = Max(MinSpeedKt, newSpeed) * Milli]

\* Mutant of setAltitude: the speed target is set to the present speed too.
setAltitudeHoldingSpeed(a, newAltitude) ==
  [a EXCEPT !.targetAlt = newAltitude * Milli, !.targetSpd = a.speed]

\* setAltitude(newAltitude), feet
setAltitude(a, newAltitude) == [a EXCEPT !.targetAlt = newAltitude * Milli]

(***************************************************************************)
(* gameLoop                                                                *)
(***************************************************************************)
\* the sweep branch: display state overwritten from true state
SweepAircraft(a, size) ==
  LET px == latLonToPixel(a.lat, a.lon, size)
  IN  [a EXCEPT !.displayX = px.x, !.displayY = px.y, !.displayHdg = a.heading]

\* Mutant of AccumulatorAfterSweep: the interval is subtracted.
AccumulatorCarry(acc) == acc - SWEEP_INTERVAL_MS

\* the accumulator after a sweep has fired
AccumulatorAfterSweep(acc) == 0

\* Mutant of DeltaTimeMs: the first frame measures its delta from time 0.
DeltaTimeFromZero(currentTime) == currentTime - lastUpdateTime

\* deltaTimeMs of a frame at currentTime
DeltaTimeMs(currentTime) ==
  IF lastUpdateTime = 0 THEN 0 ELSE currentTime - lastUpdateTime

\* Aircraft.draw / calculateTagLayout: the symbol from the display state, the
\* label text from the true and target state
Draw(a) ==
  [x |-> a.displayX, y |-> a.displayY, hdg |-> a.displayHdg,
   assignedHdg |-> Round(a.targetHdg, Milli),
   currentFL |-> Round(a.altitude, 100 * Milli),
   trendIndicator |-> IF Abs(a.targetAlt - a.altitude) > TrendThresholdFt * Milli
                      THEN IF a.targetAlt > a.altitude THEN "up" ELSE "down"
                      ELSE " ",
   clearedFL |-> Round(a.targetAlt, 100 * Milli),
   speed |-> Round(a.speed, Milli)]

Planes == 1..Len(aircraftList)

\* Mutant of DrawAll: the labels are drawn from a copy of the aircraft taken
\* at the sweep.
DrawAllAtSweep(shown, sweep) ==
  IF sweep \/ drawn = <<>> THEN [i \in Planes |-> Draw(shown[i])] ELSE drawn

\* aircraftList.forEach(plane => plane.draw(...)), in every frame
DrawAll(shown, sweep) == [i \in Planes |-> Draw(shown[i])]

\* Mutant of UpdateThenSweep: the sweep branch runs before update().
SweepThenUpdate(a, deltaTimeMs, sweep, size) ==
  IF sweep THEN Update(SweepAircraft(a, size), deltaTimeMs) ELSE Update(a, deltaTimeMs)

\* one aircraft through a tick: update() first, then the sweep branch if due
UpdateThenSweep(a, deltaTimeMs, sweep, size) ==
  LET updated == Update(a, deltaTimeMs)
  IN  IF sweep THEN SweepAircraft(updated, size) ELSE updated

GameLoop(currentTime) ==
  LET deltaTimeMs == DeltaTimeMs(currentTime)
      acc     == timeSinceLastSweep + deltaTimeMs
      sweep   == acc >= SWEEP_INTERVAL_MS
      shown   == [i \in Planes |->
                    UpdateThenSweep(aircraftList[i], deltaTimeMs, sweep, canvasSize)]
  IN  /\ currentTime > 0
      /\ currentTime >= lastUpdateTime
      /\ currentTime <= MaxTime
      /\ lastUpdateTime' = currentTime
      /\ aircraftList' = shown
      /\ timeSinceLastSweep' = IF sweep THEN AccumulatorAfterSweep(acc) ELSE acc
      /\ drawn' = DrawAll(shown, sweep)
      /\ sweepCount' = IF sweep THEN sweepCount + 1 ELSE sweepCount
      /\ lastSweepTime' = IF sweep \/ lastUpdateTime = 0 THEN currentTime
                          ELSE lastSweepTime
      /\ hist' = [i \in Planes |->
                    [hist[i] EXCEPT !.hdgSince = @ + deltaTimeMs,
                                    !.spdSince = @ + deltaTimeMs,
                                    !.altSince = @ + deltaTimeMs,
                                    !.sweptLat = IF sweep THEN shown[i].lat ELSE @,
                                    !.sweptLon = IF sweep THEN shown[i].lon ELSE @]]
      /\ UNCHANGED <<canvasSize, budget>>
      /\ UNCHANGED navVars

(***************************************************************************)
(* The tag input field.  Its text is a sequence of characters; parseFloat  *)
(* is modelled on texts of blanks, signs, digits and letters (no decimal   *)
(* point or exponent): it skips leading blanks, takes an optional sign and *)
(* the longest run of digits, and gives NaN (the empty tuple here) when no *)
(* digit follows.                                                          *)
(***************************************************************************)
DigitChars == <<"0", "1", "2", "3", "4", "5", "6", "7", "8", "9">>

IsDigit(c) == \E i \in 1..Len(DigitChars) : DigitChars[i] = c

DigitValue(c) == (CHOOSE i \in 1..Len(DigitChars) : DigitChars[i] = c) - 1

RECURSIVE SkipBlanks(_)
SkipBlanks(text) ==
  IF text # <<>> /\ Head(text) = " " THEN SkipBlanks(Tail(text)) ELSE text

RECURSIVE DigitRun(_, _)
DigitRun(text, acc) ==
  IF text # <<>> /\ IsDigit(Head(text))
  THEN DigitRun(Tail(text), 10 * acc + DigitValue(Head(text)))
  ELSE acc

\* Mutant of parseFloat: Number(text), by which an empty or blank text is 0
\* and a text with anything after the digits is NaN.
NumberOf(text) ==
  LET t == SkipBlanks(text)
      signed == t # <<>> /\ Head(t) \in {"+", "-"}
      body == IF signed THEN Tail(t) ELSE t
  IN  IF t = <<>> THEN <<0>>
      ELSE IF body # <<>> /\ \A i \in 1..Len(body) : IsDigit(body[i])
      THEN <<(IF Head(t) = "-" THEN -1 ELSE 1) * DigitRun(body, 0)>>
      ELSE <<>>

parseFloat(text) ==
  LET t == SkipBlanks(text)
      signed == t # <<>> /\ Head(t) \in {"+", "-"}
      body == IF signed THEN Tail(t) ELSE t
  IN  IF body = <<>> \/ ~IsDigit(Head(body)) THEN <<>>
      ELSE <<(IF Head(t) = "-" THEN -1 ELSE 1) * DigitRun(body, 0)>>

\* tagInput keydown, Enter, property 'heading'
CommandHeading(p, value) ==
  /\ budget > 0
  /\ budget' = budget - 1
  /\ aircraftList' = [aircraftList EXCEPT ![p] = setHeading(@, value)]
  /\ hist' = [hist EXCEPT ![p] = [@ EXCEPT !.hdgCmd = <<value>>,
                                             !.hdgFrom = aircraftList[p].heading,
                                             !.hdgSince = 0]]
  /\ UNCHANGED <<lastUpdateTime, timeSinceLastSweep, canvasSize, drawn,
                 sweepCount, lastSweepTime>>
  /\ UNCHANGED navVars

\* tagInput keydown, Enter, property 'speed'
CommandSpeed(p, value) ==
  /\ budget > 0
  /\ budget' = budget - 1
  /\ aircraftList' = [aircraftList EXCEPT ![p] = setSpeed(@, value)]
  /\ hist' = [hist EXCEPT ![p] = [@ EXCEPT !.spdCmd = <<value>>,
                                             !.spdFrom = aircraftList[p].speed,
                                             !.spdSince = 0,
                                             !.spdLow = Min(@, aircraftList'[p].targetSpd),
                                             !.spdHigh = Max(@, aircraftList'[p].targetSpd)]]
  /\ UNCHANGED <<lastUpdateTime, timeSinceLastSweep, canvasSize, drawn,
                 sweepCount, lastSweepTime>>
  /\ UNCHANGED navVars

\* tagInput keydown, Enter, property 'altitude': the value is a flight level
CommandAltitude(p, value) ==
  /\ budget > 0
  /\ budget' = budget - 1
  /\ aircraftList' = [aircraftList EXCEPT ![p] = setAltitude(@, value * 100)]
  /\ hist' = [hist EXCEPT ![p] = [@ EXCEPT !.altCmd = <<value * 100>>,
                                             !.altFrom = aircraftList[p].altitude,
                                             !.altSince = 0]]
  /\ UNCHANGED <<lastUpdateTime, timeSinceLastSweep, canvasSize, drawn,
                 sweepCount, lastSweepTime>>
  /\ UNCHANGED navVars

\* history of a newly constructed aircraft: no command yet
NoHistory(a) ==
  [hdgCmd |-> <<>>, spdCmd |-> <<>>, altCmd |-> <<>>,
   hdgFrom |-> a.heading, hdgSince |-> 0,
   spdFrom |-> a.speed, spdSince |-> 0,
   spdLow |-> a.speed, spdHigh |-> a.speed,
   sweptLat |-> a.lat, sweptLon |-> a.lon,
   altFrom |-> a.altitude, altSince |-> 0]

\* the settings as shipped
ShippedAirports == {"LIML", "LIMC"}
ShippedSettings ==
  [radarRangeNM |-> RadarRangeNM,
   activeAirports |-> [airport \in ShippedAirports |->
                         IF airport = "LIML" THEN {<<"R", "W", "3", "5">>}
                         ELSE {<<"R", "W", "3", "5", "R">>}]]

\* the record collections before loadNavData() has delivered; status tells
\* how far the promise chain of loadNavData() has come
NoNavData ==
  [runways |-> <<>>, ilsData |-> <<>>, approachPaths |-> <<>>, status |-> "pending"]

\* navdataCanvas with nothing drawn
EmptyCanvas == [runways |-> <<>>, ils |-> <<>>]

\* the navigation side at application start, navigation data not yet loaded
InitScope ==
  /\ settings = ShippedSettings
  /\ bounds = calculateGeographicBounds(settings.radarRangeNM)
  /\ navData = NoNavData
  /\ navCanvas = EmptyCanvas
  /\ probe = <<>>

\* application start: the two aircraft placed by pixel position
StartingAircraft(size) ==
  LET initialPos1 == pixelToLatLon(100 * Milli, 100 * Milli, size)
      initialPos2 == pixelToLatLon(700 * Milli, 600 * Milli, size)
  IN  <<NewAircraft("BAW123", initialPos1.lat, initialPos1.lon, 135, 18000, 230,
                    "LIMC", "M", size),
        NewAircraft("AWE456", initialPos2.lat, initialPos2.lon, 225, 16000, 160,
                    "LIML", "M", size)>>

\* application start: bounds, canvas size, two aircraft, first frame requested
Init ==
  /\ InitScope
  /\ canvasSize \in CanvasSizes
  /\ aircraftList = StartingAircraft(canvasSize)
  /\ lastUpdateTime = 0
  /\ timeSinceLastSweep = 0
  /\ drawn = <<>>
  /\ sweepCount = 0
  /\ lastSweepTime = 0
  /\ budget = MaxCommands
  /\ hist = [i \in Planes |-> NoHistory(aircraftList[i])]

\* requestAnimationFrame timestamps: the first callback, then one per frame
FrameTimes == IF lastUpdateTime = 0 THEN FirstFrameTimes
              ELSE {lastUpdateTime + d : d \in Deltas}

Frame == \E currentTime \in FrameTimes : GameLoop(currentTime)

\* tagInput keydown, Enter, the field holding a text that parses to NaN
IgnoreCommand ==
  /\ budget > 0
  /\ budget' = budget - 1
  /\ UNCHANGED <<aircraftList, lastUpdateTime, timeSinceLastSweep, canvasSize, drawn,
                 sweepCount, lastSweepTime, hist>>
  /\ UNCHANGED navVars

\* tagInput keydown, Enter, with activeInput = {plane, property}
Keydown(p, property, text) ==
  LET value == parseFloat(text)
  IN  \/ value = <<>> /\ IgnoreCommand
      \/ value # <<>> /\ property = "heading" /\ CommandHeading(p, value[1])
      \/ value # <<>> /\ property = "speed" /\ CommandSpeed(p, value[1])
      \/ value # <<>> /\ property = "altitude" /\ CommandAltitude(p, value[1])

TextsOf(property) ==
  CASE property = "heading" -> HeadingTexts
    [] property = "speed" -> SpeedTexts
    [] property = "altitude" -> AltitudeTexts

Properties == {"heading", "speed", "altitude"}

Command ==
  \E p \in Planes :
    \E property \in Properties :
      \E text \in TextsOf(property) : Keydown(p, property, text)

Next == Frame \/ Command

Spec == Init /\ [][Next]_vars

\* The application run at a steady frame rate: every frame delta is shorter
\* than the sweep interval.
SmallDeltas == {0, 300, 700, 900, 1100, 1900}
SmallFrameTimes == IF lastUpdateTime = 0 THEN FirstFrameTimes
                   ELSE {lastUpdateTime + d : d \in SmallDeltas}

SmallFrame == \E currentTime \in SmallFrameTimes : GameLoop(currentTime)

NextSmallFrames == SmallFrame

SpecSmallFrames == Init /\ [][NextSmallFrames]_vars

\* One aircraft, constructed with arguments drawn from small sets, then
\* commanded and updated by the same handlers.
InitHeadings == {1, 190, 358}
InitAircraft ==
  /\ InitScope
  /\ canvasSize \in CanvasSizes
  /\ \E heading \in InitHeadings :
       aircraftList =
         <<NewAircraft("TST001", CenterLat, CenterLon, heading, 18000, 230,
                       "LIMC", "M", canvasSize)>>
  /\ lastUpdateTime = 0
  /\ timeSinceLastSweep = 0
  /\ drawn = <<>>
  /\ sweepCount = 0
  /\ lastSweepTime = 0
  /\ budget = MaxAircraftCommands
  /\ hist = [i \in Planes |-> NoHistory(aircraftList[i])]

SpecAircraft == InitAircraft /\ [][Next]_vars

\* One aircraft constructed on the equator heading due east, then flown by
\* the frames of gameLoop.
EquatorSpeeds == {100, 160, 230, 460}
EquatorLons == {0, CenterLon}
InitEquator ==
  /\ InitScope
  /\ canvasSize \in CanvasSizes
  /\ \E speed \in EquatorSpeeds, lon \in EquatorLons :
       aircraftList =
         <<NewAircraft("TST001", 0, lon, FullCircle \div 4, 18000, speed,
                       "LIMC", "M", canvasSize)>>
  /\ lastUpdateTime = 0
  /\ timeSinceLastSweep = 0
  /\ drawn = <<>>
  /\ sweepCount = 0
  /\ lastSweepTime = 0
  /\ budget = 0
  /\ hist = [i \in Planes |-> NoHistory(aircraftList[i])]

NextEquator == Frame

SpecEquator == InitEquator /\ [][NextEquator]_vars

\* One aircraft constructed just inside an edge of the geographic bounds,
\* heading out, then flown by the frames of gameLoop.
EdgeMargin == 1000
EdgeSpeeds == {160, 230, 460}
EdgeStarts ==
  {[lat |-> maxLat - EdgeMargin, lon |-> CenterLon, heading |-> 0],
   [lat |-> CenterLat, lon |-> maxLon - EdgeMargin, heading |-> 90],
   [lat |-> minLat + EdgeMargin, lon |-> minLon + EdgeMargin, heading |-> 225]}
InitEdge ==
  /\ InitScope
  /\ canvasSize \in CanvasSizes
  /\ \E speed \in EdgeSpeeds, start \in EdgeStarts :
       aircraftList =
         <<NewAircraft("TST001", start.lat, start.lon, start.heading, 18000, speed,
                       "LIMC", "M", canvasSize)>>
  /\ lastUpdateTime = 0
  /\ timeSinceLastSweep = 0
  /\ drawn = <<>>
  /\ sweepCount = 0
  /\ lastSweepTime = 0
  /\ budget = 0
  /\ hist = [i \in Planes |-> NoHistory(aircraftList[i])]

NextEdge == Frame

SpecEdge == InitEdge /\ [][NextEdge]_vars
(***************************************************************************)
(* Navigation data: runway identifiers                                     *)
(***************************************************************************)
\* String.prototype.substring(from, to) and substring(from)
Substring(text, from, to) == SubSeq(text, from + 1, Min(to, Len(text)))
SubstringFrom(text, from) == SubSeq(text, from + 1, Len(text))

\* parseInt on texts of blanks, signs, digits and letters; NaN is <<>>
parseInt(text) ==
  LET t == SkipBlanks(text)
      signed == t # <<>> /\ Head(t) \in {"+", "-"}
      body == IF signed THEN Tail(t) ELSE t
  IN  IF body = <<>> \/ ~IsDigit(Head(body)) THEN <<>>
      ELSE <<(IF Head(t) = "-" THEN -1 ELSE 1) * DigitRun(body, 0)>>

RECURSIVE Decimal(_)
Decimal(n) ==
  IF n < 10 THEN <<DigitChars[n + 1]>>
  ELSE Decimal(n \div 10) \o <<DigitChars[(n % 10) + 1]>>

\* String(number), NaN included
NumberToString(number) ==
  IF number = <<>> THEN <<"N", "a", "N">>
  ELSE IF number[1] < 0 THEN <<"-">> \o Decimal(-number[1])
  ELSE Decimal(number[1])

\* text.padStart(2, '0')
PadStart(text) ==
  IF Len(text) = 0 THEN <<"0", "0">>
  ELSE IF Len(text) = 1 THEN <<"0">> \o text
  ELSE text

\* Mutant of OppositeNum: runway 18 is taken for the upper half.
OppositeNumFrom18(rwyNum) ==
  IF rwyNum = <<>> THEN <<>>
  ELSE IF rwyNum[1] >= ReciprocalOffset THEN <<rwyNum[1] - ReciprocalOffset>>
  ELSE <<rwyNum[1] + ReciprocalOffset>>

\* rwyNum > 18 ? rwyNum - 18 : rwyNum + 18 (NaN stays NaN)
OppositeNum(rwyNum) ==
  IF rwyNum = <<>> THEN <<>>
  ELSE IF rwyNum[1] > ReciprocalOffset THEN <<rwyNum[1] - ReciprocalOffset>>
  ELSE <<rwyNum[1] + ReciprocalOffset>>

OppositeSide(rwySide) ==
  IF rwySide = <<"L">> THEN <<"R">>
  ELSE IF rwySide = <<"R">> THEN <<"L">>
  ELSE IF rwySide = <<"C">> THEN <<"C">>
  ELSE <<>>

\* the identifier of the reciprocal runway
OppositeId(id) ==
  <<"R", "W">> \o PadStart(NumberToString(OppositeNum(parseInt(Substring(id, 2, 4)))))
              \o OppositeSide(SubstringFrom(id, 4))

(***************************************************************************)
(* Navigation data: drawing                                                *)
(***************************************************************************)
\* kmPerPixel * size, in metres: the width of the scope
ScopeWidthM == settings.radarRangeNM * NmToKmE3 * 2

\* a length in metres divided by kmPerPixel, in 1/1000 pixel
LengthPx(metres, size) ==
  IF ScopeWidthM = 0 THEN NaN ELSE ToPixel(metres, ScopeWidthM, size)

\* Math.sin or Math.cos (times 10000) times a length in 1/1000 pixel
Along(trig, lengthPx) ==
  IF lengthPx = NaN THEN NaN ELSE Quot(trig * (lengthPx \div 10), TrigScale \div 10)

Plus(a, b) == IF a = NaN \/ b = NaN THEN NaN ELSE a + b

\* Mutant of IsActive: the identifier is looked up in the list of every
\* airport.
IsActiveAnywhere(airport, id) ==
  \E listed \in DOMAIN settings.activeAirports : id \in settings.activeAirports[listed]

\* activeAirports[airport] && activeAirports[airport].includes(id)
IsActive(airport, id) ==
  /\ airport \in DOMAIN settings.activeAirports
  /\ id \in settings.activeAirports[airport]

\* Mutant of FindRunway: the airport is not compared.
FindRunwayAnywhere(records, id, airport) ==
  LET found == {j \in 1..Len(records) : records[j].id = id}
  IN  IF found = {} THEN <<>>
      ELSE <<records[CHOOSE j \in found : \A k \in found : j <= k]>>

\* runways.find(r => r.id === id && r.airport === airport)
FindRunway(records, id, airport) ==
  LET found == {j \in 1..Len(records) :
                  records[j].id = id /\ records[j].airport = airport}
  IN  IF found = {} THEN <<>>
      ELSE <<records[CHOOSE j \in found : \A k \in found : j <= k]>>

\* the far end of a runway without a loaded reciprocal: length and bearing
FarEndByLength(p1, runway, size) ==
  LET lengthPx == LengthPx((runway.length * FeetToKmE7) \div (10 * Milli), size)
  IN  [x |-> Plus(p1.x, Along(SinE4(runway.trueBearing * Milli), lengthPx)),
       y |-> Plus(p1.y, -Along(CosE4(runway.trueBearing * Milli), lengthPx))]

\* one runway of the forEach of drawAllRunways: the line drawn, labelled
\* with the record it was drawn for and the way its far end was found
RunwayLine(records, runway, size) ==
  LET p1 == latLonToPixel(runway.lat, runway.lon, size)
      oppositeId == OppositeId(runway.id)
      oppositeRunway == FindRunway(records, oppositeId, runway.airport)
  IN  [airport |-> runway.airport, id |-> runway.id, oppositeId |-> oppositeId,
       p1 |-> p1,
       p2 |-> IF oppositeRunway # <<>>
              THEN latLonToPixel(oppositeRunway[1].lat, oppositeRunway[1].lon, size)
              ELSE FarEndByLength(p1, runway, size),
       farEnd |-> IF oppositeRunway # <<>> THEN "reciprocal" ELSE "length"]

\* drawAllRunways: the forEach from record i on, with the drawnRunways set
RECURSIVE DrawRunwaysFrom(_, _, _, _, _)
DrawRunwaysFrom(records, i, drawnRunways, lines, size) ==
  IF i > Len(records) THEN lines
  ELSE LET runway == records[i]
       IN  IF IsActive(runway.airport, runway.id) /\ runway.id \notin drawnRunways
           THEN LET line == RunwayLine(records, runway, size)
                IN  DrawRunwaysFrom(records, i + 1,
                      drawnRunways \cup {runway.id}
                        \cup (IF line.farEnd = "reciprocal" THEN {line.oppositeId} ELSE {}),
                      Append(lines, line), size)
           ELSE DrawRunwaysFrom(records, i + 1, drawnRunways, lines, size)

drawAllRunways(records, size) == DrawRunwaysFrom(records, 1, {}, <<>>, size)

\* one localizer of the forEach of drawAllIls
IlsLine(ils, runway, size) ==
  LET threshold == latLonToPixel(runway.lat, runway.lon, size)
      trueBearing == ils.bearing + ils.declination
      locLengthPx == LengthPx(LocalizerNM * NmToKmE3, size)
  IN  [airport |-> ils.airport, runway |-> ils.runway, threshold |-> threshold,
       locLengthPx |-> locLengthPx,
       endX |-> Plus(threshold.x, -Along(SinE4(trueBearing * Milli), locLengthPx)),
       endY |-> Plus(threshold.y, Along(CosE4(trueBearing * Milli), locLengthPx))]

RECURSIVE DrawIlsFrom(_, _, _, _, _)
DrawIlsFrom(ilsRecords, records, i, lines, size) ==
  IF i > Len(ilsRecords) THEN lines
  ELSE LET ils == ilsRecords[i]
           runway == FindRunway(records, ils.runway, ils.airport)
       IN  IF IsActive(ils.airport, ils.runway) /\ runway # <<>>
           THEN DrawIlsFrom(ilsRecords, records, i + 1,
                            Append(lines, IlsLine(ils, runway[1], size)), size)
           ELSE DrawIlsFrom(ilsRecords, records, i + 1, lines, size)

drawAllIls(ilsRecords, records, size) == DrawIlsFrom(ilsRecords, records, 1, <<>>, size)

\* drawNavData: the canvas is cleared and drawn anew
drawNavData(data, size) ==
  [runways |-> drawAllRunways(data.runways, size),
   ils |-> drawAllIls(data.ilsData, data.runways, size)]

(***************************************************************************)
(* The navigation side as a state machine: settings chosen before start,   *)
(* then the window resized, the records delivered by loadNavData(), the    *)
(* aircraft placed, and points handed to the projection.                   *)
(***************************************************************************)
RadarRanges == {0, RadarRangeNM}
NavCanvasSizes == {600, 800}

RW(number, side) == <<"R", "W">> \o PadStart(Decimal(number)) \o side

\* allowlists: as shipped; a runway and its reciprocal both active; the
\* same identifiers active at two airports; one airport only
Allowlists ==
  {ShippedSettings.activeAirports,
   [airport \in {"LIML"} |-> {RW(35, <<>>)}],
   [airport \in ShippedAirports |->
      IF airport = "LIML" THEN {RW(35, <<>>), RW(17, <<>>)}
      ELSE {RW(35, <<"R">>), RW(17, <<"L">>)}],
   [airport \in ShippedAirports |-> {RW(35, <<>>), RW(17, <<>>)}]}

Runway(airport, id, lat, lon, trueBearing) ==
  [airport |-> airport, id |-> id, lat |-> lat, lon |-> lon,
   length |-> 8000, trueBearing |-> trueBearing]

LIML35 == Runway("LIML", RW(35, <<>>), 45438000, 9279000, 355)
LIML17 == Runway("LIML", RW(17, <<>>), 45461200, 9276700, 175)
LIML17L == Runway("LIML", RW(17, <<"L">>), 45461300, 9270000, 175)
LIMC35R == Runway("LIMC", RW(35, <<"R">>), 45615300, 8740000, 349)
LIMC17L == Runway("LIMC", RW(17, <<"L">>), 45645900, 8733700, 169)
LIMC35 == Runway("LIMC", RW(35, <<>>), 45616000, 8725000, 349)
LIMC17 == Runway("LIMC", RW(17, <<>>), 45646000, 8719000, 169)

\* record sets: every reciprocal loaded; none loaded; a reciprocal
\* identifier loaded for the other airport only; the same identifiers at
\* both airports; the reciprocal listed before the runway
RunwaySets ==
  {<<LIML35, LIML17, LIMC35R, LIMC17L>>,
   <<LIML35, LIMC35R>>,
   <<LIML35, LIML17L, LIMC35R>>,
   <<LIML35, LIML17, LIMC35, LIMC17>>,
   <<LIMC17L, LIMC35R, LIML17>>}

Localizer(airport, runway, lat, lon, bearing) ==
  [airport |-> airport, runway |-> runway, lat |-> lat, lon |-> lon,
   bearing |-> bearing, declination |-> 3]

IlsRecords ==
  <<Localizer("LIML", RW(35, <<>>), 45461000, 9276800, 352),
    Localizer("LIMC", RW(35, <<"R">>), 45645000, 8733900, 346)>>

\* a row of tbl_iaps
ApproachLeg(icao, id, waypointId, waypointLat, waypointLon) ==
  [icao |-> icao, id |-> id, waypointId |-> waypointId,
   waypointLat |-> waypointLat, waypointLon |-> waypointLon,
   waypointType |-> <<"E", " ", " ", "B">>]

\* approach legs: none; the ILS approach of LIML runway 35 from a fix on the
\* meridian of the threshold, 0.15 degree (9 NM) to the south
ApproachSets ==
  {<<>>,
   <<ApproachLeg("LIML", <<"I", "3", "5">>, <<"K", "I", "T", "E">>,
                 LIML35.lat - 150000, LIML35.lon)>>}

NavDataSets ==
  {[runways |-> records, ilsData |-> IlsRecords, approachPaths |-> legs] :
     records \in RunwaySets, legs \in ApproachSets}

\* WHERE longitude BETWEEN minLon AND maxLon AND latitude BETWEEN minLat AND maxLat
InBounds(record) ==
  /\ minLon <= record.lon /\ record.lon <= maxLon
  /\ minLat <= record.lat /\ record.lat <= maxLat

\* loadNavData(): the records inside the bounds arrive and are drawn
DataLoaded(data) ==
  /\ navData = NoNavData
  /\ navData' = [runways |-> SelectSeq(data.runways, InBounds),
                 ilsData |-> SelectSeq(data.ilsData, InBounds),
                 approachPaths |-> data.approachPaths,
                 status |-> "loaded"]
  /\ navCanvas' = drawNavData(navData', canvasSize)
  /\ UNCHANGED <<aircraftList, lastUpdateTime, timeSinceLastSweep, canvasSize, drawn,
                 sweepCount, lastSweepTime, budget, hist, settings, bounds, probe>>

\* the queries of loadNavData() that assign a modelled collection, in order
LoadStages == <<"runways", "ilsData", "approachPaths">>

\* loadNavData() rejected: initSqlJs, fetch or the first queries failed
\* (done = 0), or a later query threw after the collections before it were
\* assigned; catch() logs the error, drawNavData() is not called
LoadFailed(data, done) ==
  /\ navData = NoNavData
  /\ navData' = [runways |-> IF done >= 1 THEN SelectSeq(data.runways, InBounds)
                             ELSE <<>>,
                 ilsData |-> IF done >= 2 THEN SelectSeq(data.ilsData, InBounds)
                             ELSE <<>>,
                 approachPaths |-> <<>>,
                 status |-> "failed"]
  /\ UNCHANGED <<aircraftList, lastUpdateTime, timeSinceLastSweep, canvasSize, drawn,
                 sweepCount, lastSweepTime, budget, hist, settings, bounds, navCanvas,
                 probe>>

\* Mutant of ResizeCanvas: the navigation canvas is not drawn anew.
ResizeCanvasKeepsDrawing(size) ==
  /\ size # canvasSize
  /\ canvasSize' = size
  /\ UNCHANGED <<aircraftList, lastUpdateTime, timeSinceLastSweep, drawn,
                 sweepCount, lastSweepTime, budget, hist, settings, bounds, navData,
                 navCanvas, probe>>

\* resizeCanvas(): the canvases take the new size and drawNavData() runs
ResizeCanvas(size) ==
  /\ size # canvasSize
  /\ canvasSize' = size
  /\ navCanvas' = drawNavData(navData, size)
  /\ UNCHANGED <<aircraftList, lastUpdateTime, timeSinceLastSweep, drawn,
                 sweepCount, lastSweepTime, budget, hist, settings, bounds, navData,
                 probe>>

\* application start: the two aircraft are constructed
PlaceAircraft ==
  /\ aircraftList = <<>>
  /\ aircraftList' = StartingAircraft(canvasSize)
  /\ hist' = [i \in 1..Len(aircraftList') |-> NoHistory(aircraftList'[i])]
  /\ UNCHANGED <<lastUpdateTime, timeSinceLastSweep, canvasSize, drawn,
                 sweepCount, lastSweepTime, budget>>
  /\ UNCHANGED navVars

\* the two projections applied to the probe points, each followed by the other
RoundTrip ==
  /\ probe.out = <<>>
  /\ LET pixel == latLonToPixel(probe.geo.lat, probe.geo.lon, canvasSize)
         geo == pixelToLatLon(probe.pixel.x, probe.pixel.y, canvasSize)
     IN  probe' = [probe EXCEPT !.out =
                     <<[size |-> canvasSize,
                        pixel |-> pixel,
                        geoBack |-> pixelToLatLon(pixel.x, pixel.y, canvasSize),
                        geo |-> geo,
                        pixelBack |-> latLonToPixel(geo.lat, geo.lon, canvasSize)]>>]
  /\ UNCHANGED <<aircraftList, lastUpdateTime, timeSinceLastSweep, canvasSize, drawn,
                 sweepCount, lastSweepTime, budget, hist, settings, bounds, navData,
                 navCanvas>>

\* probe points: geographic points across the bounds (corners included) and
\* pixels across the smallest canvas
ProbeSteps == {0, 3, 7}
ProbePoints ==
  {[geo |-> [lat |-> minLat + (k * (maxLat - minLat)) \div 7,
             lon |-> minLon + (k * (maxLon - minLon)) \div 7],
    pixel |-> [x |-> (k * 599999) \div 7, y |-> ((7 - k) * 600 * Milli) \div 7],
    out |-> <<>>] : k \in ProbeSteps}

InitNav ==
  /\ settings \in {[radarRangeNM |-> range, activeAirports |-> allowlist] :
                     range \in RadarRanges, allowlist \in Allowlists}
  /\ bounds = calculateGeographicBounds(settings.radarRangeNM)
  /\ canvasSize \in NavCanvasSizes
  /\ navData = NoNavData
  /\ navCanvas = EmptyCanvas
  /\ probe \in ProbePoints
  /\ aircraftList = <<>>
  /\ lastUpdateTime = 0
  /\ timeSinceLastSweep = 0
  /\ drawn = <<>>
  /\ sweepCount = 0
  /\ lastSweepTime = 0
  /\ budget = 0
  /\ hist = <<>>

NextNav ==
  \/ \E data \in NavDataSets : DataLoaded(data)
  \/ \E size \in NavCanvasSizes : ResizeCanvas(size)
  \/ PlaceAircraft
  \/ RoundTrip

SpecNav == InitNav /\ [][NextNav]_vars

\* Math.PI / 3 in 1/1000 radian: one of the 6 tag positions
TagIncrement == (2 * PiE3) \div TagPositions

\* Math.sqrt(dx * dx + dy * dy) < 15, the mouse in whole pixels
NearSymbol(a, mouse) ==
  LET dx == a.displayX - mouse[1] * Milli
      dy == a.displayY - mouse[2] * Milli
      radius == ClickRadiusPx * Milli
  IN  /\ a.displayX # NaN /\ a.displayY # NaN
      /\ Abs(dx) < radius /\ Abs(dy) < radius
      /\ dx * dx + dy * dy < radius * radius

\* Mutant of ContextMenu: the tag of every aircraft is moved.
ContextMenuMovesAll(mouse) ==
  /\ \A p \in Planes : aircraftList[p].tagAngle < MaxTagClicks * TagIncrement
  /\ aircraftList' = [p \in Planes |->
                        [aircraftList[p] EXCEPT !.tagAngle = @ + TagIncrement]]
  /\ UNCHANGED <<lastUpdateTime, timeSinceLastSweep, canvasSize, drawn,
                 sweepCount, lastSweepTime, budget, hist>>
  /\ UNCHANGED navVars

\* the contextmenu listener: a right-click at mouse on the canvas
ContextMenu(mouse) ==
  /\ \A p \in Planes :
       NearSymbol(aircraftList[p], mouse) =>
         aircraftList[p].tagAngle < MaxTagClicks * TagIncrement
  /\ aircraftList' = [p \in Planes |->
                        IF NearSymbol(aircraftList[p], mouse)
                        THEN [aircraftList[p] EXCEPT !.tagAngle = @ + TagIncrement]
                        ELSE aircraftList[p]]
  /\ UNCHANGED <<lastUpdateTime, timeSinceLastSweep, canvasSize, drawn,
                 sweepCount, lastSweepTime, budget, hist>>
  /\ UNCHANGED navVars

\* mouse positions: on the first symbol at start, 14.1 and 15.6 pixels from
\* it, on the second symbol, on empty scope
MousePoints == {<<100, 100>>, <<110, 110>>, <<111, 111>>, <<700, 600>>, <<400, 400>>}

\* The running scope: the frames of gameLoop while the navigation data is
\* pending, arrives or fails, while the window is resized and while the
\* operator right-clicks.
ScopeCanvasSizes == {800, 600}

NextScope ==
  \/ Frame
  \/ \E data \in NavDataSets : DataLoaded(data)
  \/ \E data \in NavDataSets : \E done \in 0..(Len(LoadStages) - 1) : LoadFailed(data, done)
  \/ \E size \in ScopeCanvasSizes : ResizeCanvas(size)
  \/ \E mouse \in MousePoints : ContextMenu(mouse)

SpecScope == Init /\ [][NextScope]_vars

(***************************************************************************)
(* The localizer length of the first iteration's drawNavData               *)
(* (src/game.js:506-573): the approach legs of the runway are counted by   *)
(* waypoint identifier and the line is drawn out to the chosen waypoint.   *)
(* The later drawAllIls draws a fixed 15 NM instead.                       *)
(***************************************************************************)
\* text.includes(part)
Includes(text, part) ==
  \E i \in 1..(Len(text) - Len(part) + 1) : SubSeq(text, i, i + Len(part) - 1) = part

\* /\d/.test(id)
HasDigit(id) == \E i \in 1..Len(id) : IsDigit(id[i])

\* approachPaths.filter(...).filter(...): the legs of type "B" of the
\* airport whose procedure identifier includes the runway's
MatchingApproaches(approachPaths, ils, runway) ==
  LET cutRunway == SubstringFrom(runway.id, 2)
      Matches(ap) == /\ Len(ap.waypointType) >= 4
                     /\ ap.waypointType[4] = "B"
                     /\ ap.icao = ils.airport
                     /\ Len(ap.id) > 0
                     /\ Includes(ap.id, cutRunway)
  IN  SelectSeq(approachPaths, Matches)

\* idCounts[id]
CountOf(approaches, id) ==
  Cardinality({i \in 1..Len(approaches) : approaches[i].waypointId = id})

\* a property key that is an array index: for...in visits these first, in
\* ascending order, then the other keys in the order they were created
IsIndexKey(id) ==
  /\ Len(id) > 0
  /\ \A i \in 1..Len(id) : IsDigit(id[i])
  /\ Len(id) = 1 \/ id[1] # "0"

RECURSIVE Ascending(_)
Ascending(keys) ==
  IF keys = {} THEN <<>>
  ELSE LET least == CHOOSE k \in keys :
                      \A other \in keys : DigitRun(k, 0) <= DigitRun(other, 0)
       IN  <<least>> \o Ascending(keys \ {least})

RECURSIVE CreationOrder(_, _)
CreationOrder(approaches, seen) ==
  IF approaches = <<>> THEN <<>>
  ELSE LET id == Head(approaches).waypointId
       IN  IF id \in seen \/ IsIndexKey(id)
           THEN CreationOrder(Tail(approaches), seen)
           ELSE <<id>> \o CreationOrder(Tail(approaches), seen \cup {id})

\* the keys of idCounts in for...in order
KeysOf(approaches) ==
  Ascending({approaches[i].waypointId :
               i \in {j \in 1..Len(approaches) : IsIndexKey(approaches[j].waypointId)}})
    \o CreationOrder(approaches, {})

\* the loop over idCounts: the identifiers with the highest count
RECURSIVE MostCommonFrom(_, _, _, _)
MostCommonFrom(approaches, keys, maxCount, mostCommonIds) ==
  IF keys = <<>> THEN mostCommonIds
  ELSE LET id == Head(keys)
           count == CountOf(approaches, id)
       IN  IF count > maxCount
           THEN MostCommonFrom(approaches, Tail(keys), count, <<id>>)
           ELSE IF count = maxCount
           THEN MostCommonFrom(approaches, Tail(keys), maxCount, Append(mostCommonIds, id))
           ELSE MostCommonFrom(approaches, Tail(keys), maxCount, mostCommonIds)

NoDigit(id) == ~HasDigit(id)

\* Mutant of ChosenId: a named fix is preferred among all the identifiers,
\* not among the most common ones.
ChosenIdNamedFirst(approaches) ==
  LET keys == KeysOf(approaches)
      mostCommonIds == MostCommonFrom(approaches, keys, 0, <<>>)
      preferredIds == SelectSeq(keys, NoDigit)
  IN  IF preferredIds # <<>> THEN preferredIds[1] ELSE mostCommonIds[1]

\* chosenId, for a non-empty list of matching approaches
ChosenId(approaches) ==
  LET mostCommonIds == MostCommonFrom(approaches, KeysOf(approaches), 0, <<>>)
      preferredIds == SelectSeq(mostCommonIds, NoDigit)
  IN  IF preferredIds # <<>> THEN preferredIds[1] ELSE mostCommonIds[1]

\* ilsData.forEach of the first iteration: per localizer drawn, the legs
\* matched and the waypoint the line is drawn to (none: the 15 NM default)
RECURSIVE LocalizerWaypointsFrom(_, _, _)
LocalizerWaypointsFrom(data, i, lines) ==
  IF i > Len(data.ilsData) THEN lines
  ELSE LET ils == data.ilsData[i]
           runway == FindRunway(data.runways, ils.runway, ils.airport)
       IN  IF IsActive(ils.airport, ils.runway) /\ runway # <<>>
           THEN LET matchingApproaches ==
                      MatchingApproaches(data.approachPaths, ils, runway[1])
                IN  LocalizerWaypointsFrom(data, i + 1,
                      Append(lines,
                             [airport |-> ils.airport, runway |-> ils.runway,
                              matchingApproaches |-> matchingApproaches,
                              chosenId |-> IF Len(matchingApproaches) > 0
                                           THEN <<ChosenId(matchingApproaches)>>
                                           ELSE <<>>]))
           ELSE LocalizerWaypointsFrom(data, i + 1, lines)

\* the localizers are drawn once the data is loaded
DrawLocalizers ==
  /\ navCanvas = EmptyCanvas
  /\ navCanvas' = [runways |-> <<>>, ils |-> LocalizerWaypointsFrom(navData, 1, <<>>)]
  /\ UNCHANGED <<aircraftList, lastUpdateTime, timeSinceLastSweep, canvasSize, drawn,
                 sweepCount, lastSweepTime, budget, hist, settings, bounds, navData,
                 probe>>

LegOf(icao, id, waypointType, waypointId) ==
  [icao |-> icao, id |-> id, waypointType |-> waypointType,
   waypointId |-> waypointId]

Leg(icao, waypointType, waypointId) ==
  LegOf(icao, <<"I", "3", "5">>, waypointType, waypointId)

\* approach legs: to a named fix, to a fix with digits in its name, to a fix
\* named by a number, of another leg type, of another airport, and of the
\* approach I35R to a parallel runway of the same airport
ApproachLegs ==
  {Leg("LIML", <<"E", " ", " ", "B">>, <<"K", "I", "T", "E">>),
   Leg("LIML", <<"E", " ", " ", "B">>, <<"A", "B", "1", "2">>),
   Leg("LIML", <<"E", " ", " ", "B">>, <<"7">>),
   Leg("LIML", <<"E", " ", " ", "F">>, <<"K", "I", "T", "E">>),
   Leg("LIMC", <<"E", " ", " ", "B">>, <<"K", "I", "T", "E">>),
   LegOf("LIML", <<"I", "3", "5", "R">>, <<"E", " ", " ", "B">>,
         <<"D", "O", "R", "I">>)}

RECURSIVE LegLists(_)
LegLists(n) ==
  IF n = 0 THEN {<<>>}
  ELSE LegLists(n - 1)
         \cup {Append(list, leg) : list \in {l \in LegLists(n - 1) : Len(l) = n - 1},
                                   leg \in ApproachLegs}

InitIls ==
  /\ settings = ShippedSettings
  /\ bounds = calculateGeographicBounds(settings.radarRangeNM)
  /\ canvasSize \in CanvasSizes
  /\ \E approachPaths \in LegLists(MaxLegs) :
       navData = [runways |-> <<LIML35, LIMC35R>>, ilsData |-> IlsRecords,
                  approachPaths |-> approachPaths, status |-> "loaded"]
  /\ navCanvas = EmptyCanvas
  /\ probe = <<>>
  /\ aircraftList = <<>>
  /\ lastUpdateTime = 0
  /\ timeSinceLastSweep = 0
  /\ drawn = <<>>
  /\ sweepCount = 0
  /\ lastSweepTime = 0
  /\ budget = 0
  /\ hist = <<>>

NextIls == DrawLocalizers

SpecIls == InitIls /\ [][NextIls]_vars

(***************************************************************************)
(* Vocabulary of the properties                                            *)
(***************************************************************************)
\* a step taken by gameLoop (a command spends budget, a resize changes the
\* canvas size, the loader changes the navigation side, a right-click turns
\* a tag and nothing else; gameLoop does not)
TagTurned ==
  /\ \E p \in Planes : aircraftList'[p].tagAngle # aircraftList[p].tagAngle
  /\ UNCHANGED <<lastUpdateTime, timeSinceLastSweep, drawn, sweepCount, lastSweepTime>>

FrameStep ==
  /\ budget' = budget
  /\ canvasSize' = canvasSize
  /\ navVars' = navVars
  /\ ~TagTurned
  /\ vars' # vars

\* a step in which a sweep event fired
SweepStep == sweepCount' # sweepCount

\* the frame delta of a gameLoop step
StepDelta == DeltaTimeMs(lastUpdateTime')

Display(a) == <<a.displayX, a.displayY, a.displayHdg>>

TrueState(a) == <<a.lat, a.lon, a.heading, a.speed, a.altitude, a.verticalSpeed>>

Targets(a) == <<a.targetHdg, a.targetSpd, a.targetAlt>>

(***************************************************************************)
(* C1: when a sweep fires on an accumulator of 2000 + r ms, 0 <= r < 2000, *)
(* the accumulator is r afterwards (the interval is subtracted, the        *)
(* remainder carries over).                                                *)
(***************************************************************************)
C1_RemainderCarriesOver ==
  [][(SweepStep /\ timeSinceLastSweep + StepDelta < 2 * SWEEP_INTERVAL_MS)
       => timeSinceLastSweep' = timeSinceLastSweep + StepDelta - SWEEP_INTERVAL_MS]_vars

(***************************************************************************)
(* C2: a frame fires a sweep event exactly when the time elapsed since the *)
(* previous sweep (since the first frame, before any sweep) has reached    *)
(* 2000 ms at that frame, and then it fires exactly one.                   *)
(***************************************************************************)
SinceLastSweep == IF lastUpdateTime = 0 THEN 0 ELSE lastUpdateTime' - lastSweepTime

C2_SweepIffDue ==
  [][FrameStep =>
       /\ sweepCount' \in {sweepCount, sweepCount + 1}
       /\ (sweepCount' = sweepCount + 1) <=> (SinceLastSweep >= SWEEP_INTERVAL_MS)]_vars

\* two 900 ms frames after a sweep: 1800 ms elapsed and no second sweep
C2_Witness ==
  /\ sweepCount = 1
  /\ lastUpdateTime - lastSweepTime = 1800

(***************************************************************************)
(* C3: between two sweep events the display state of every aircraft is     *)
(* frozen: a step that fires no sweep (an update, a command) leaves        *)
(* displayX, displayY and displayHdg of every aircraft unchanged.          *)
(***************************************************************************)
C3_DisplayFrozenBetweenSweeps ==
  [][~SweepStep =>
       \A p \in Planes : Display(aircraftList'[p]) = Display(aircraftList[p])]_vars

\* an aircraft has turned and moved since the last sweep and is still shown
\* where it was
C3_Witness ==
  \E p \in Planes :
    LET a == aircraftList[p]
    IN  /\ lastUpdateTime > lastSweepTime
        /\ a.displayHdg # a.heading
        /\ <<a.displayX, a.displayY>> #
             <<latLonToPixel(a.lat, a.lon, canvasSize).x,
               latLonToPixel(a.lat, a.lon, canvasSize).y>>

(***************************************************************************)
(* C4: in a tick that sweeps, every aircraft is first updated and then     *)
(* swept and then drawn: after the step its true state is update() of the  *)
(* state before, its display state is latLonToPixel of that new position   *)
(* and that new heading, and the symbol is drawn from that display state.  *)
(***************************************************************************)
C4_SweepShowsUpdatedState ==
  [][SweepStep =>
       \A p \in Planes :
         LET u == Update(aircraftList[p], StepDelta)
             b == aircraftList'[p]
             px == latLonToPixel(u.lat, u.lon, canvasSize)
         IN  /\ TrueState(b) = TrueState(u)
             /\ Display(b) = <<px.x, px.y, u.heading>>
             /\ <<drawn'[p].x, drawn'[p].y, drawn'[p].hdg>> = Display(b)]_vars

\* a sweep has just caught an aircraft in mid-turn and moved its symbol
C4_Witness ==
  \E p \in Planes :
    LET a == aircraftList[p]
    IN  /\ sweepCount > 0
        /\ lastSweepTime = lastUpdateTime
        /\ a.heading # a.targetHdg
        /\ a.heading # hist[p].hdgFrom
        /\ a.displayHdg = a.heading
        /\ drawn[p].hdg = a.heading
(***************************************************************************)
(* C5: the true state of an aircraft (heading, speed, altitude, and with   *)
(* them position and verticalSpeed) changes only in a gameLoop step, and   *)
(* there by exactly one update(deltaTime) per aircraft; a command step     *)
(* leaves it as it is.  The program has no other step: no timer callback.  *)
(***************************************************************************)
C5_TrueStateOnlyByUpdate ==
  [][\A p \in Planes :
       TrueState(aircraftList'[p]) =
         IF FrameStep THEN TrueState(Update(aircraftList[p], StepDelta))
         ELSE TrueState(aircraftList[p])]_vars

\* a commanded turn under way, made by update() alone
C5_Witness ==
  \E p \in Planes :
    LET a == aircraftList[p]
    IN  /\ hist[p].hdgCmd # <<>>
        /\ hist[p].hdgSince > 0
        /\ a.heading # hist[p].hdgFrom
        /\ a.heading # a.targetHdg
(***************************************************************************)
(* Arcs on the compass, stated without the code's folding                  *)
(***************************************************************************)
\* degrees to turn clockwise from heading h to reach t, in [0, 360)
Clockwise(h, t) == (t - h) % Circle

\* length of the shorter arc between h and t, in [0, 180]
ShortArc(h, t) == Min(Clockwise(h, t), Circle - Clockwise(h, t))

\* the turn directions (+1 clockwise, -1 counter-clockwise) that follow a
\* shortest arc from h to t: both when t is exactly opposite
ShortWays(h, t) ==
  IF Clockwise(h, t) = 0 THEN {0}
  ELSE IF Clockwise(h, t) < HalfCircle THEN {1}
  ELSE IF Clockwise(h, t) > HalfCircle THEN {-1}
  ELSE {1, -1}

\* the latest commanded target of each axis (the constructed one before any command)
LatestHdg(p) == IF hist[p].hdgCmd = <<>> THEN aircraftList[p].targetHdg
                ELSE (hist[p].hdgCmd[1] * Milli) % Circle
LatestSpd(p) == IF hist[p].spdCmd = <<>> THEN aircraftList[p].targetSpd
                ELSE IF hist[p].spdCmd[1] < MinSpeedKt THEN MinSpeedKt * Milli
                ELSE hist[p].spdCmd[1] * Milli
LatestAlt(p) == IF hist[p].altCmd = <<>> THEN aircraftList[p].targetAlt
                ELSE hist[p].altCmd[1] * Milli

\* v2 lies between v1 and the target t, t included
Toward(v1, v2, t) == (v1 <= v2 /\ v2 <= t) \/ (t <= v2 /\ v2 <= v1)

(***************************************************************************)
(* C6: latest command wins.  At every moment the target of each axis is    *)
(* the normalized (heading) or clamped (speed) value of the most recent    *)
(* command on that axis, and every update moves the true value toward that *)
(* latest target only: speed and altitude to a value between the old value *)
(* and the target, heading along a shortest arc to it, never farther away. *)
(***************************************************************************)
C6_TargetsAreLatest ==
  \A p \in Planes :
    Targets(aircraftList[p]) = <<LatestHdg(p), LatestSpd(p), LatestAlt(p)>>

C6_MovesTowardLatest ==
  FrameStep =>
    \A p \in Planes :
      LET a == aircraftList[p]
          b == aircraftList'[p]
      IN  /\ Toward(a.speed, b.speed, LatestSpd(p))
          /\ Toward(a.altitude, b.altitude, LatestAlt(p))
          /\ ShortArc(b.heading, LatestHdg(p)) <= ShortArc(a.heading, LatestHdg(p))
          /\ \E way \in ShortWays(a.heading, LatestHdg(p)) :
               b.heading = (a.heading + way * (ShortArc(a.heading, LatestHdg(p))
                                               - ShortArc(b.heading, LatestHdg(p)))) % Circle

C6_LatestCommandWins == [](C6_TargetsAreLatest) /\ [][C6_MovesTowardLatest]_vars

\* two heading commands, the second given in the middle of the first turn,
\* and the aircraft has turned since
C6_Witness ==
  \E p \in Planes :
    /\ budget = 0
    /\ hist[p].spdCmd = <<>> /\ hist[p].altCmd = <<>>
    /\ hist[p].hdgCmd = <<370>>
    /\ hist[p].hdgFrom \notin {h * Milli : h \in InitHeadings \cup {355}}
    /\ hist[p].hdgSince > 0
    /\ aircraftList[p].heading # hist[p].hdgFrom

(***************************************************************************)
(* C7 as stated: the difference update() steps by lies in (-180, 180], so  *)
(* it is never exactly -180.                                               *)
(***************************************************************************)
C7_DiffNeverMinus180 ==
  \A p \in Planes :
    LET d == HeadingDiff(aircraftList[p].heading, aircraftList[p].targetHdg)
    IN  -HalfCircle < d /\ d <= HalfCircle

(***************************************************************************)
(* C7 as amended: for every heading the aircraft takes and every target    *)
(* (its own, and every multiple of 5 degrees) the difference lies in       *)
(* [-180, 180], is congruent to target - heading, and its size is the      *)
(* length of the shorter arc, so the turn follows a shortest arc; it is    *)
(* -180 exactly when the heading is target + 180.                          *)
(***************************************************************************)
TargetGrid == {5 * k * Milli : k \in 0..71}

C7_DiffIsShortArc ==
  \A p \in Planes :
    \A t \in TargetGrid \cup {aircraftList[p].targetHdg} :
      LET h == aircraftList[p].heading
          d == HeadingDiff(h, t)
      IN  /\ -HalfCircle <= d /\ d <= HalfCircle
          /\ (d - (t - h)) % Circle = 0
          /\ Abs(d) = ShortArc(h, t)
          /\ (d = -HalfCircle) <=> (h = t + HalfCircle)

\* the aircraft has turned left out of a difference of exactly -180
C7_Witness ==
  \E p \in Planes :
    /\ hist[p].hdgFrom = 190 * Milli
    /\ aircraftList[p].targetHdg = 10 * Milli
    /\ hist[p].hdgSince = 900
    /\ aircraftList[p].heading = 190 * Milli - TurnRate * 900
(***************************************************************************)
(* C8: heading capture.  Since the latest heading command (or since        *)
(* construction) the aircraft has turned from the heading it had then      *)
(* along a shortest arc to the target, by 2 degrees per second of updates  *)
(* and by no more than the length of that arc: so it is on the arc, it is  *)
(* exactly at the target once enough time has been applied, and it stays   *)
(* there under further updates.                                            *)
(***************************************************************************)
C8_HeadingCapture ==
  \A p \in Planes :
    LET h0 == hist[p].hdgFrom
        t == aircraftList[p].targetHdg
        turned == Min(ShortArc(h0, t), TurnRate * hist[p].hdgSince)
    IN  \E way \in ShortWays(h0, t) \cup {0} :
          /\ way = 0 => turned = 0
          /\ aircraftList[p].heading = (h0 + way * turned) % Circle

\* from heading 1 to target 355: 6 degrees left through north, captured,
\* and held through a later update
C8_Witness ==
  \E p \in Planes :
    /\ hist[p].hdgFrom = 1 * Milli
    /\ aircraftList[p].targetHdg = 355 * Milli
    /\ aircraftList[p].heading = 355 * Milli
    /\ TurnRate * hist[p].hdgSince > ShortArc(1 * Milli, 355 * Milli)

(***************************************************************************)
(* C9: snap without overshoot.  In one update of dt seconds each axis      *)
(* whose remaining distance to its target is less than rate * dt (2 deg/s, *)
(* 10 kt/s, 25 ft/s) is set exactly to the target; otherwise it moves by   *)
(* exactly rate * dt toward the target (heading modulo 360).  The          *)
(* remaining distance never grows and the value never passes the target.   *)
(***************************************************************************)
ClimbRate == VerticalSpeedFPM \div SecondsPerMinute

C9_LinearAxis(v1, v2, t, step) ==
  /\ Abs(t - v1) < step => v2 = t
  /\ Abs(t - v1) >= step => v2 = v1 + step * Sign(t - v1)
  /\ Toward(v1, v2, t)

C9_SnapStep ==
  FrameStep =>
    \A p \in Planes :
      LET a == aircraftList[p]
          b == aircraftList'[p]
          arc == ShortArc(a.heading, a.targetHdg)
      IN  /\ C9_LinearAxis(a.speed, b.speed, a.targetSpd, Accel * StepDelta)
          /\ C9_LinearAxis(a.altitude, b.altitude, a.targetAlt, ClimbRate * StepDelta)
          /\ arc < TurnRate * StepDelta => b.heading = a.targetHdg
          /\ arc >= TurnRate * StepDelta =>
               \E way \in ShortWays(a.heading, a.targetHdg) \cup {0} :
                 /\ way = 0 => StepDelta = 0
                 /\ b.heading = (a.heading + way * TurnRate * StepDelta) % Circle
          /\ ShortArc(b.heading, a.targetHdg) = IF arc < TurnRate * StepDelta THEN 0
                                                ELSE arc - TurnRate * StepDelta

C9_SnapWithoutOvershoot == [][C9_SnapStep]_vars

\* FL181 from 18000 ft in two updates of 2.1 s: 52.5 ft, then the remaining
\* 47.5 ft is less than a step and the altitude is set to 18100 exactly
C9_Witness ==
  \E p \in Planes :
    /\ hist[p].altCmd = <<18100>>
    /\ lastUpdateTime = 5200
    /\ aircraftList[p].altitude = 18100 * Milli
    /\ aircraftList[p].verticalSpeed = 0

(***************************************************************************)
(* C10: after every update verticalSpeed is 0 exactly when altitude equals *)
(* targetAlt, and otherwise +1500 when the target is above and -1500 when  *)
(* it is below.                                                            *)
(***************************************************************************)
C10_VerticalSpeedMatches ==
  [][FrameStep =>
       \A p \in Planes :
         aircraftList'[p].verticalSpeed =
           VerticalSpeedFPM * Sign(aircraftList'[p].targetAlt - aircraftList'[p].altitude)]_vars
(***************************************************************************)
(* C11: every capture completes.  On each axis, once update() has run for  *)
(* at least distance / rate seconds since the latest command (distance     *)
(* from the value at the command to its target), the true value equals the *)
(* target, and it stays equal while no new command arrives.  Every update  *)
(* with dt > 0 of an axis that is not at its target brings it strictly     *)
(* closer, and a command leaves the axis at its target exactly when the    *)
(* commanded target equals the current value.                              *)
(***************************************************************************)
CommandStep == budget' < budget

C11_CapturedInTime ==
  \A p \in Planes :
    LET a == aircraftList[p]
        h == hist[p]
    IN  /\ TurnRate * h.hdgSince >= ShortArc(h.hdgFrom, a.targetHdg)
             => a.heading = a.targetHdg
        /\ Accel * h.spdSince >= Abs(a.targetSpd - h.spdFrom)
             => a.speed = a.targetSpd
        /\ ClimbRate * h.altSince >= Abs(a.targetAlt - h.altFrom)
             => a.altitude = a.targetAlt

C11_Progress ==
  /\ (FrameStep /\ StepDelta > 0) =>
       \A p \in Planes :
         LET a == aircraftList[p]
             b == aircraftList'[p]
         IN  /\ a.heading # a.targetHdg =>
                  ShortArc(b.heading, b.targetHdg) < ShortArc(a.heading, a.targetHdg)
             /\ a.speed # a.targetSpd =>
                  Abs(b.targetSpd - b.speed) < Abs(a.targetSpd - a.speed)
             /\ a.altitude # a.targetAlt =>
                  Abs(b.targetAlt - b.altitude) < Abs(a.targetAlt - a.altitude)
  /\ CommandStep =>
       \A p \in Planes :
         LET a == aircraftList[p]
             b == aircraftList'[p]
         IN  /\ <<b.heading, b.speed, b.altitude>> = <<a.heading, a.speed, a.altitude>>
             /\ (b.heading = b.targetHdg) <=> (a.heading = LatestHdg(p)')
             /\ (b.speed = b.targetSpd) <=> (a.speed = LatestSpd(p)')
             /\ (b.altitude = b.targetAlt) <=> (a.altitude = LatestAlt(p)')

C11_EveryCaptureCompletes == [](C11_CapturedInTime) /\ [][C11_Progress]_vars

\* 230 kt to 240 kt in three updates of 0.9 s: 239, then 240 by the snap,
\* then still 240
C11_Witness ==
  \E p \in Planes :
    /\ hist[p].spdCmd = <<240>>
    /\ hist[p].spdFrom = 230 * Milli
    /\ hist[p].spdSince = 2700
    /\ aircraftList[p].speed = 240 * Milli

(***************************************************************************)
(* C12: a heading command d leaves targetHdg = d mod 360, in [0, 360),     *)
(* for negative d and d >= 360 as well, and changes nothing else: true     *)
(* state, the other two targets, the display state and what is drawn stay  *)
(* as they were.  The same holds of setHeading applied to any d of a grid  *)
(* from -720 to 1080.                                                      *)
(***************************************************************************)
HeadingGrid == {45 * k - 725 : k \in 0..40}

C12_OnlyTargetHdg(a, b, d) ==
  /\ b.targetHdg = (d * Milli) % Circle
  /\ 0 <= b.targetHdg /\ b.targetHdg < Circle
  /\ b = [a EXCEPT !.targetHdg = b.targetHdg]

C12_Step ==
  /\ \A p \in Planes :
       \A d \in HeadingGrid :
         C12_OnlyTargetHdg(aircraftList[p], setHeading(aircraftList[p], d), d)
  /\ \A p \in Planes :
       (CommandStep /\ hist'[p].hdgCmd # <<>> /\ hist'[p].hdgSince = 0
          /\ hist'[p].spdCmd = hist[p].spdCmd /\ hist'[p].altCmd = hist[p].altCmd
          /\ hist'[p].spdSince = hist[p].spdSince /\ hist'[p].altSince = hist[p].altSince
          /\ hist'[p] # hist[p]) =>
         /\ C12_OnlyTargetHdg(aircraftList[p], aircraftList'[p], hist'[p].hdgCmd[1])
         /\ drawn' = drawn

C12_SetHeadingContract == [][C12_Step]_vars

\* heading -5 commanded in mid-turn: the target is 355 and the heading is
\* where the turn had brought it
C12_Witness ==
  \E p \in Planes :
    /\ hist[p].hdgCmd = <<-5>>
    /\ hist[p].hdgSince = 0
    /\ aircraftList[p].targetHdg = 355 * Milli
    /\ aircraftList[p].heading \notin {h * Milli : h \in InitHeadings}

(***************************************************************************)
(* C13: after a speed command k the speed target is max(100, k) knots: it  *)
(* is never below 100 kt, and k >= 100 is stored unchanged.  The same      *)
(* holds of setSpeed applied to any k of a grid from 0 to 400.             *)
(***************************************************************************)
SpeedGrid == {25 * k : k \in 0..16} \cup {99, 101}

C13_SetSpeedFloor ==
  \A p \in Planes :
    /\ \A k \in SpeedGrid :
         LET t == setSpeed(aircraftList[p], k).targetSpd
         IN  /\ t >= MinSpeedKt * Milli
             /\ k >= MinSpeedKt => t = k * Milli
             /\ k < MinSpeedKt => t = MinSpeedKt * Milli
    /\ hist[p].spdCmd # <<>> =>
         LET k == hist[p].spdCmd[1]
             t == aircraftList[p].targetSpd
         IN  /\ t >= MinSpeedKt * Milli
             /\ k >= MinSpeedKt => t = k * Milli
             /\ k < MinSpeedKt => t = MinSpeedKt * Milli

\* 50 kt commanded after 240 kt: the target is 100 kt
C13_Witness ==
  \E p \in Planes :
    /\ budget = 0
    /\ hist[p].spdCmd = <<50>>
    /\ hist[p].spdFrom > 230 * Milli
    /\ aircraftList[p].targetSpd = 100 * Milli
(***************************************************************************)
(* C14: a command whose text does not parse to a number (no digit follows  *)
(* the leading blanks and the optional sign) is ignored: no aircraft's     *)
(* true, target or display state changes, nothing drawn changes, and the   *)
(* state of the frame loop (last frame time, sweep accumulator) is as it   *)
(* was, so the loop goes on.                                               *)
(***************************************************************************)
LooksNumeric(text) ==
  \E i \in 1..Len(text) :
    /\ IsDigit(text[i])
    /\ \A j \in 1..(i - 1) :
         text[j] = " " \/ (j = i - 1 /\ text[j] \in {"+", "-"})

C14_Step ==
  \A p \in Planes :
    \A property \in Properties :
      \A text \in TextsOf(property) :
        (~LooksNumeric(text) /\ Keydown(p, property, text)) =>
          UNCHANGED <<aircraftList, drawn, lastUpdateTime, timeSinceLastSweep,
                      canvasSize, sweepCount, hist>>

C14_InvalidInputIgnored == [][C14_Step]_vars

\* every admitted keypress went by without a command taking effect, and
\* frames ran
C14_Witness ==
  /\ budget = 0
  /\ sweepCount > 0
  /\ \A p \in Planes :
       /\ hist[p].hdgCmd = <<>> /\ hist[p].spdCmd = <<>> /\ hist[p].altCmd = <<>>
       /\ Targets(aircraftList[p]) =
            <<aircraftList[p].heading, aircraftList[p].speed, aircraftList[p].altitude>>
(***************************************************************************)
(* C15: degenerate geographic bounds (minLat = maxLat or minLon = maxLon)  *)
(* are rejected when constructed, so that no projection is ever evaluated  *)
(* with them: no aircraft is placed, no point projected and nothing drawn  *)
(* through a zero-width or zero-height box.                                *)
(***************************************************************************)
Degenerate == minLat = maxLat \/ minLon = maxLon

C15_DegenerateBoundsRejected ==
  Degenerate =>
    /\ aircraftList = <<>>
    /\ probe.out = <<>>
    /\ navCanvas = EmptyCanvas

(***************************************************************************)
(* C16: projection round trip.  With non-degenerate bounds and any canvas  *)
(* size, pixelToLatLon(latLonToPixel(lat, lon)) is (lat, lon) within 1e-6  *)
(* degree for the points of a grid over the bounds (edges included), and   *)
(* latLonToPixel(pixelToLatLon(x, y)) is (x, y) for the pixels of a grid   *)
(* over the canvas (edges included); likewise for the probe points the     *)
(* projections were applied to.                                            *)
(***************************************************************************)
WithinOne(a, b) == Abs(a - b) <= 1

C16_GeoRoundTrip(lat, lon, size) ==
  LET pixel == latLonToPixel(lat, lon, size)
      back == pixelToLatLon(pixel.x, pixel.y, size)
  IN  WithinOne(back.lat, lat) /\ WithinOne(back.lon, lon)

C16_PixelRoundTrip(x, y, size) ==
  LET geo == pixelToLatLon(x, y, size)
      back == latLonToPixel(geo.lat, geo.lon, size)
  IN  back.x = x /\ back.y = y

C16_ProjectionRoundTrip ==
  ~Degenerate =>
    /\ \A i, j \in 0..GridSteps :
         /\ C16_GeoRoundTrip(minLat + (i * (maxLat - minLat)) \div GridSteps,
                             minLon + (j * (maxLon - minLon)) \div GridSteps,
                             canvasSize)
         /\ C16_PixelRoundTrip((i * canvasSize * Milli) \div GridSteps,
                               (j * canvasSize * Milli) \div GridSteps,
                               canvasSize)
    /\ probe.out # <<>> =>
         /\ WithinOne(probe.out[1].geoBack.lat, probe.geo.lat)
         /\ WithinOne(probe.out[1].geoBack.lon, probe.geo.lon)
         /\ probe.out[1].pixelBack = probe.pixel

\* the projections were applied to a point and a pixel off the edges and
\* off the diagonal
C16_Witness ==
  /\ ~Degenerate
  /\ probe.out # <<>>
  /\ probe.geo.lat \notin {minLat, maxLat}
  /\ probe.pixel.x # probe.pixel.y
  /\ probe.out[1].pixel.x # probe.out[1].pixel.y
  /\ probe.out[1].geo.lat # probe.out[1].geo.lon

(***************************************************************************)
(* C17: runway reciprocal rule.  For every identifier RWnn[s], nn in       *)
(* 01..36 and s none, L, R or C, the reciprocal identifier is RW, a        *)
(* two-digit number in 01..36 differing from nn by exactly 18, and the     *)
(* mirrored side (L <-> R, C -> C, none -> none); the reciprocal of the    *)
(* reciprocal is the identifier itself.  Every runway line drawn carries   *)
(* such a reciprocal identifier.                                           *)
(***************************************************************************)
Sides == {<<>>, <<"L">>, <<"R">>, <<"C">>}

Mirrored(side) ==
  CASE side = <<"L">> -> <<"R">>
    [] side = <<"R">> -> <<"L">>
    [] OTHER -> side

TwoDigits(id) == 10 * DigitValue(id[3]) + DigitValue(id[4])

C17_IsReciprocal(id, opposite) ==
  /\ Len(opposite) = Len(id)
  /\ SubSeq(opposite, 1, 2) = <<"R", "W">>
  /\ IsDigit(opposite[3]) /\ IsDigit(opposite[4])
  /\ TwoDigits(opposite) \in 1..36
  /\ Abs(TwoDigits(opposite) - TwoDigits(id)) = 18
  /\ SubSeq(opposite, 5, Len(opposite)) = Mirrored(SubSeq(id, 5, Len(id)))

C17_ReciprocalRule ==
  /\ \A nn \in 1..36 :
       \A side \in Sides :
         /\ C17_IsReciprocal(RW(nn, side), OppositeId(RW(nn, side)))
         /\ OppositeId(OppositeId(RW(nn, side))) = RW(nn, side)
  /\ \A k \in 1..Len(navCanvas.runways) :
       C17_IsReciprocal(navCanvas.runways[k].id, navCanvas.runways[k].oppositeId)

\* RW35R of LIMC drawn to the threshold of its reciprocal RW17L
C17_Witness ==
  \E k \in 1..Len(navCanvas.runways) :
    /\ navCanvas.runways[k].id = <<"R", "W", "3", "5", "R">>
    /\ navCanvas.runways[k].oppositeId = <<"R", "W", "1", "7", "L">>
    /\ navCanvas.runways[k].farEnd = "reciprocal"

(***************************************************************************)
(* C18: in a drawing pass the pavement of every active runway whose record *)
(* is loaded is drawn exactly once: exactly one line is drawn for the      *)
(* runway or its reciprocal at that airport, whatever is active or drawn   *)
(* at another airport.                                                     *)
(***************************************************************************)
C18_EachPavementOnce ==
  \A i \in 1..Len(navData.runways) :
    LET runway == navData.runways[i]
    IN  IsActive(runway.airport, runway.id) =>
          Cardinality({k \in 1..Len(navCanvas.runways) :
                         /\ navCanvas.runways[k].airport = runway.airport
                         /\ navCanvas.runways[k].id \in
                              {runway.id, OppositeId(runway.id)}}) = 1

(***************************************************************************)
(* C19: a missing reciprocal is a fallback.  For every runway line drawn,  *)
(* the far end is the threshold of the reciprocal exactly when a record    *)
(* with the reciprocal identifier is loaded for the same airport (one at   *)
(* another airport is never used); otherwise it is the threshold moved by  *)
(* lengthFt * FEET_TO_KM / kmPerPixel along trueBearing.                   *)
(***************************************************************************)
RecordsOf(airport, id) ==
  {j \in 1..Len(navData.runways) :
     navData.runways[j].airport = airport /\ navData.runways[j].id = id}

C19_FarEnd ==
  \A k \in 1..Len(navCanvas.runways) :
    LET line == navCanvas.runways[k]
        reciprocals == RecordsOf(line.airport, line.oppositeId)
    IN  /\ (line.farEnd = "reciprocal") <=> (reciprocals # {})
        /\ reciprocals # {} =>
             \E j \in reciprocals :
               line.p2 = latLonToPixel(navData.runways[j].lat,
                                       navData.runways[j].lon, canvasSize)
        /\ reciprocals = {} =>
             \E j \in RecordsOf(line.airport, line.id) :
               LET runway == navData.runways[j]
                   lengthPx == ToPixel((runway.length * FeetToKmE7) \div (10 * Milli),
                                       ScopeWidthM, canvasSize)
               IN  /\ line.p1 = latLonToPixel(runway.lat, runway.lon, canvasSize)
                   /\ line.p2.x = line.p1.x
                        + Quot(SinE4(runway.trueBearing * Milli) * (lengthPx \div 10), Milli)
                   /\ line.p2.y = line.p1.y
                        - Quot(CosE4(runway.trueBearing * Milli) * (lengthPx \div 10), Milli)

\* RW35R of LIMC drawn by length and bearing although a record named RW17L
\* is loaded, for LIML
C19_Witness ==
  /\ RecordsOf("LIML", <<"R", "W", "1", "7", "L">>) # {}
  /\ RecordsOf("LIMC", <<"R", "W", "1", "7", "L">>) = {}
  /\ \E k \in 1..Len(navCanvas.runways) :
       /\ navCanvas.runways[k].airport = "LIMC"
       /\ navCanvas.runways[k].oppositeId = <<"R", "W", "1", "7", "L">>
       /\ navCanvas.runways[k].farEnd = "length"
       /\ navCanvas.runways[k].p2 # navCanvas.runways[k].p1
(***************************************************************************)
(* C20: ILS reference waypoint.  For every localizer drawn with matching   *)
(* approach legs, the chosen identifier occurs among them as often as any  *)
(* identifier does (so a less frequent identifier without digits never     *)
(* wins), and it contains no digit whenever some identifier of that        *)
(* highest count contains none.                                            *)
(***************************************************************************)
Occurrences(legs, id) == Cardinality({i \in 1..Len(legs) : legs[i].waypointId = id})

C20_WaypointChoice ==
  \A k \in 1..Len(navCanvas.ils) :
    LET legs == navCanvas.ils[k].matchingApproaches
        ids == {legs[i].waypointId : i \in 1..Len(legs)}
        top == {id \in ids : \A other \in ids :
                               Occurrences(legs, id) >= Occurrences(legs, other)}
    IN  legs # <<>> =>
          /\ navCanvas.ils[k].chosenId # <<>>
          /\ navCanvas.ils[k].chosenId[1] \in top
          /\ (\E id \in top : ~HasDigit(id)) => ~HasDigit(navCanvas.ils[k].chosenId[1])

\* AB12 and KITE once each, AB12 first: KITE is chosen
C20_Witness ==
  \E k \in 1..Len(navCanvas.ils) :
    LET legs == navCanvas.ils[k].matchingApproaches
    IN  /\ Len(legs) = 2
        /\ legs[1].waypointId = <<"A", "B", "1", "2">>
        /\ legs[2].waypointId = <<"K", "I", "T", "E">>
        /\ navCanvas.ils[k].chosenId = <<<<"K", "I", "T", "E">>>>
(***************************************************************************)
(* C21: localizer course length.  Every localizer drawn has the fixed      *)
(* 15 NM length exactly when no approach leg matches its runway (same      *)
(* airport, leg type B, procedure identifier containing the runway         *)
(* suffix); when legs match, its length is the great-circle distance from  *)
(* the threshold to the chosen waypoint, in pixels.  The distance is       *)
(* stated for a waypoint on the meridian of the threshold, where the       *)
(* haversine formula gives R * |dLat|.                                     *)
(***************************************************************************)
\* R * c of the haversine formula for dLon = 0, in metres; latitudes in
\* 1/1000000 degree
MeridianArcM(lat1, lat2) ==
  ((((EarthRadiusKm * Abs(lat2 - lat1)) \div Milli) \div HalfTurnDeg) * PiE3) \div Milli

C21_LengthToWaypoint ==
  \A k \in 1..Len(navCanvas.ils) :
    LET line == navCanvas.ils[k]
        runway == FindRunway(navData.runways, line.runway, line.airport)[1]
        legs == MatchingApproaches(navData.approachPaths, line, runway)
        fixed == LengthPx(LocalizerNM * NmToKmE3, canvasSize)
    IN  IF legs = <<>>
        THEN line.locLengthPx = fixed
        ELSE LET chosenId == ChosenId(legs)
                 ap == legs[CHOOSE i \in 1..Len(legs) :
                              /\ legs[i].waypointId = chosenId
                              /\ \A j \in 1..(i - 1) : legs[j].waypointId # chosenId]
             IN  ap.waypointLon = runway.lon =>
                   line.locLengthPx =
                     LengthPx(MeridianArcM(runway.lat, ap.waypointLat), canvasSize)
(***************************************************************************)
(* C22: a navigation-data outage does not stop the simulation.  While      *)
(* loadNavData has not completed, or after it has failed, the navigation   *)
(* collections are empty and nothing is drawn from them, and every         *)
(* gameLoop step updates every aircraft, sweeps when due and leaves the    *)
(* next frame scheduled.                                                   *)
(***************************************************************************)
Outage == navData.status # "loaded"

CollectionsEmpty ==
  /\ navData.runways = <<>>
  /\ navData.ilsData = <<>>
  /\ navData.approachPaths = <<>>

\* gameLoop can run again: a frame is requested and the clock has room
NextFrameScheduled ==
  (\E currentTime \in FrameTimes : currentTime <= MaxTime) => ENABLED Frame

C22_FramesGoOn ==
  [][(FrameStep /\ Outage) =>
       /\ \A p \in Planes :
            TrueState(aircraftList'[p]) = TrueState(Update(aircraftList[p], StepDelta))
       /\ (sweepCount' = sweepCount + 1) <=> (SinceLastSweep >= SWEEP_INTERVAL_MS)
       /\ SweepStep =>
            \A p \in Planes :
              LET b == aircraftList'[p]
                  px == latLonToPixel(b.lat, b.lon, canvasSize')
              IN  Display(b) = <<px.x, px.y, b.heading>>
       /\ Len(drawn') = Len(aircraftList)
       /\ NextFrameScheduled']_vars

\* the claim as stated: the collections stay empty through any outage
C22_OutageLeavesCollectionsEmpty ==
  /\ [](Outage => (CollectionsEmpty /\ NextFrameScheduled /\ navCanvas = EmptyCanvas))
  /\ C22_FramesGoOn

\* what holds: the collections are empty while the load is pending; after a
\* failure those assigned before the failing query keep their records, the
\* approach legs (assigned last) are empty, and the canvas shows nothing or
\* what a resize has drawn from the collections
C22_OutageKeepsRunning ==
  /\ [](/\ navData.status = "pending" => (CollectionsEmpty /\ navCanvas = EmptyCanvas)
        /\ navData.status = "failed" =>
             /\ navData.approachPaths = <<>>
             /\ navData.ilsData # <<>> => navData.runways # <<>>
             /\ navCanvas \in {EmptyCanvas, drawNavData(navData, canvasSize)}
        /\ Outage => NextFrameScheduled)
  /\ C22_FramesGoOn

\* the load has failed at its first step and the scope has gone on to sweep
C22_Witness ==
  /\ navData.status = "failed"
  /\ CollectionsEmpty
  /\ sweepCount >= 2
  /\ \E p \in Planes : aircraftList[p].lat # StartingAircraft(canvasSize)[p].lat
(***************************************************************************)
(* C23: projected navigation geometry is re-derived after every event that *)
(* invalidates it.  The step in which the load completes and every resize  *)
(* step leave on the navigation canvas what drawNavData derives from the   *)
(* collections and the canvas size of that moment; so at every frame the   *)
(* canvas shows the geometry of the current collections and size (after a  *)
(* failed load: of the collections as of the last resize, which do not     *)
(* change any more).                                                       *)
(***************************************************************************)
Invalidated == canvasSize' # canvasSize \/ (navData'.status = "loaded" /\ navData # navData')

C23_GeometryFollowsEvents ==
  /\ [][Invalidated => navCanvas' = drawNavData(navData', canvasSize')]_vars
  /\ [](navData.status # "failed" => navCanvas = drawNavData(navData, canvasSize))
  /\ [][FrameStep => navCanvas' = navCanvas]_vars

\* frames are running, the records have arrived and the window has been
\* resized: the lines on the canvas are those of the new size
C23_Witness ==
  /\ navData.status = "loaded"
  /\ navData.approachPaths # <<>>
  /\ canvasSize = 600
  /\ lastUpdateTime > 1000
  /\ Len(navCanvas.runways) = 2
  /\ navCanvas # drawNavData(navData, 800)
(***************************************************************************)
(* C24: label data is live between sweeps.  In every frame the tag text of *)
(* every aircraft (assigned heading, flight level, vertical trend, cleared *)
(* level, speed) is that of its true and target state after this frame's   *)
(* update, and the symbol is at the display state, which a frame without   *)
(* sweep leaves as it was.                                                 *)
(***************************************************************************)
TagText(d) == <<d.assignedHdg, d.currentFL, d.trendIndicator, d.clearedFL, d.speed>>

Trend(a) ==
  IF a.targetAlt - a.altitude > TrendThresholdFt * Milli THEN "up"
  ELSE IF a.altitude - a.targetAlt > TrendThresholdFt * Milli THEN "down"
  ELSE " "

C24_LabelsAreLive ==
  [][FrameStep =>
       \A p \in Planes :
         LET b == aircraftList'[p]
         IN  /\ TagText(drawn'[p]) =
                  <<Round(b.targetHdg, Milli), Round(b.altitude, 100 * Milli), Trend(b),
                    Round(b.targetAlt, 100 * Milli), Round(b.speed, Milli)>>
             /\ <<drawn'[p].x, drawn'[p].y, drawn'[p].hdg>> = Display(b)
             /\ ~SweepStep => Display(b) = Display(aircraftList[p])]_vars

\* a speed command given since the last sweep: the label shows a speed on
\* the way, not the speed at the sweep, and the symbol is where the sweep
\* left it
C24_Witness ==
  \E p \in Planes :
    LET a == aircraftList[p]
        px == latLonToPixel(a.lat, a.lon, canvasSize)
    IN  /\ sweepCount >= 1
        /\ lastUpdateTime > lastSweepTime
        /\ hist[p].spdCmd # <<>>
        /\ hist[p].spdSince <= lastUpdateTime - lastSweepTime
        /\ drawn[p].speed = Round(a.speed, Milli)
        /\ drawn[p].speed # Round(hist[p].spdFrom, Milli)
        /\ drawn[p].speed # Round(a.targetSpd, Milli)
        /\ <<drawn[p].x, drawn[p].y>> = <<a.displayX, a.displayY>>
        /\ <<a.displayX, a.displayY>> # <<px.x, px.y>>
(***************************************************************************)
(* C25: great-circle displacement.  An aircraft on the equator heading 090 *)
(* at speed s stays on latitude 0 through update(t) and its longitude      *)
(* grows by s * KNOTS_TO_KPS * t / 6371 radians, here 4.6264 millionths of *)
(* a degree per knot and second, to within one part in a thousand and one  *)
(* millionth of a degree (the resolution of the fixed-point arithmetic).   *)
(***************************************************************************)
\* Math.PI * 10000
PiE4 == 31416

\* KNOTS_TO_KPS / 6371 radians in degrees, times 10 ^ 10: 46264
GeodesicArcE4 ==
  (((KnotsToKpsE9 * (FullCircle \div 2) * 10) \div EarthRadiusKm) * (10 * Milli)) \div PiE4

\* s * KNOTS_TO_KPS * t / 6371 rad in 1/1000000 degree; s in 1/1000 kt, t in ms
GeodesicArc(s, t) ==
  (((((s \div Milli) * t) \div 100) * GeodesicArcE4) \div (100 * Milli))

AltitudeGrid == {2500 * k : k \in 0..16}

\* the axes whose target differs between a and b
TargetsChanged(a, b) ==
  {axis \in {"targetHdg", "targetSpd", "targetAlt"} : a[axis] # b[axis]}

\* the axis of the setter called in a command step, from the command history
AxisCommanded(p) ==
  {axis \in Properties :
     \/ axis = "heading" /\ hist'[p].hdgSince = 0 /\ hist'[p].hdgCmd # <<>>
          /\ (hist'[p].hdgCmd # hist[p].hdgCmd \/ hist[p].hdgSince # 0)
     \/ axis = "speed" /\ hist'[p].spdSince = 0 /\ hist'[p].spdCmd # <<>>
          /\ (hist'[p].spdCmd # hist[p].spdCmd \/ hist[p].spdSince # 0)
     \/ axis = "altitude" /\ hist'[p].altSince = 0 /\ hist'[p].altCmd # <<>>
          /\ (hist'[p].altCmd # hist[p].altCmd \/ hist[p].altSince # 0)}

TargetOf(axis) ==
  CASE axis = "heading" -> "targetHdg"
    [] axis = "speed" -> "targetSpd"
    [] axis = "altitude" -> "targetAlt"

C26_Step ==
  /\ \A p \in Planes :
       LET a == aircraftList[p]
       IN  /\ \A dt \in Deltas : Targets(Update(a, dt)) = Targets(a)
           /\ Targets(SweepAircraft(a, canvasSize)) = Targets(a)
           /\ \A d \in HeadingGrid : TargetsChanged(a, setHeading(a, d)) \subseteq {"targetHdg"}
           /\ \A k \in SpeedGrid : TargetsChanged(a, setSpeed(a, k)) \subseteq {"targetSpd"}
           /\ \A f \in AltitudeGrid :
                TargetsChanged(a, setAltitude(a, f)) \subseteq {"targetAlt"}
  /\ FrameStep => \A p \in Planes : Targets(aircraftList'[p]) = Targets(aircraftList[p])
  /\ \A p \in Planes :
       TargetsChanged(aircraftList[p], aircraftList'[p]) # {} =>
         /\ CommandStep
         /\ \E axis \in AxisCommanded(p) :
              TargetsChanged(aircraftList[p], aircraftList'[p]) = {TargetOf(axis)}
         /\ \A q \in Planes \ {p} : aircraftList'[q] = aircraftList[q]

C26_TargetsOnlyByCommands == [][C26_Step]_vars

\* an altitude command given while a commanded speed change is under way:
\* the speed target stands, and frames have left both targets alone since
C26_Witness ==
  \E p \in Planes :
    LET a == aircraftList[p]
    IN  /\ hist[p].spdCmd # <<>>
        /\ hist[p].altCmd # <<>>
        /\ hist[p].altSince > 0
        /\ hist[p].spdSince > hist[p].altSince
        /\ a.targetSpd = Max(MinSpeedKt, hist[p].spdCmd[1]) * Milli
        /\ a.targetAlt = hist[p].altCmd[1] * Milli
        /\ a.altitude # a.targetAlt
        /\ a.altitude # hist[p].altFrom
(***************************************************************************)
(* C27: a newly constructed Aircraft has true = target = display state:    *)
(* targetHdg = heading, targetSpd = speed, targetAlt = altitude,           *)
(* displayHdg = heading, (displayX, displayY) = latLonToPixel(lat, lon),   *)
(* verticalSpeed = 0; so every axis is captured: update(dt) leaves         *)
(* heading, speed and altitude as constructed and verticalSpeed 0.  Stated *)
(* of the aircraft placed at application start and of the constructor over *)
(* a grid of arguments.                                                    *)
(***************************************************************************)
C27_Fresh(a, lat, lon, heading, altitude, speed, size) ==
  /\ <<a.lat, a.lon>> = <<lat, lon>>
  /\ <<a.heading, a.altitude, a.speed>> = <<heading * Milli, altitude * Milli, speed * Milli>>
  /\ Targets(a) = <<a.heading, a.speed, a.altitude>>
  /\ a.displayHdg = a.heading
  /\ <<a.displayX, a.displayY>> =
       <<latLonToPixel(lat, lon, size).x, latLonToPixel(lat, lon, size).y>>
  /\ a.verticalSpeed = 0
  /\ \A dt \in Deltas :
       LET u == Update(a, dt)
       IN  /\ <<u.heading, u.speed, u.altitude>> = <<a.heading, a.speed, a.altitude>>
           /\ u.verticalSpeed = 0

C27_Step ==
  /\ \A heading \in {0, 135, 359}, altitude \in {0, 18000}, speed \in {50, 230} :
       \A lat \in {minLat, CenterLat}, lon \in {CenterLon, maxLon} :
         C27_Fresh(NewAircraft("TST001", lat, lon, heading, altitude, speed, "LIMC", "M",
                               canvasSize),
                   lat, lon, heading, altitude, speed, canvasSize)
  /\ (aircraftList = <<>> /\ aircraftList' # <<>>) =>
       LET initialPos1 == pixelToLatLon(100 * Milli, 100 * Milli, canvasSize)
           initialPos2 == pixelToLatLon(700 * Milli, 600 * Milli, canvasSize)
       IN  /\ Len(aircraftList') = 2
           /\ C27_Fresh(aircraftList'[1], initialPos1.lat, initialPos1.lon,
                        135, 18000, 230, canvasSize)
           /\ C27_Fresh(aircraftList'[2], initialPos2.lat, initialPos2.lon,
                        225, 16000, 160, canvasSize)

C27_NewAircraftCaptured == [][C27_Step]_vars

\* the two aircraft just placed on a 600 pixel scope of 30 NM: the first is
\* shown at pixel (100, 100)
C27_Witness ==
  /\ Len(aircraftList) = 2
  /\ canvasSize = 600
  /\ settings.radarRangeNM = RadarRangeNM
  /\ Abs(aircraftList[1].displayX - 100 * Milli) <= 1
  /\ Abs(aircraftList[1].displayY - 100 * Milli) <= 1
  /\ aircraftList[1].displayHdg = 135 * Milli
  /\ aircraftList[1].targetAlt = 18000 * Milli
(***************************************************************************)
(* C28: tagAngle persists across sweeps.  update and the sweep leave the   *)
(* tagAngle of every aircraft as it was; it changes only in a right-click  *)
(* step, for the aircraft whose displayed symbol is within 15 pixels of    *)
(* the mouse, by one increment of pi / 3.                                  *)
(***************************************************************************)
TagAngles == [p \in Planes |-> aircraftList[p].tagAngle]

C28_Step ==
  /\ \A p \in Planes :
       /\ \A dt \in Deltas : Update(aircraftList[p], dt).tagAngle = aircraftList[p].tagAngle
       /\ SweepAircraft(aircraftList[p], canvasSize).tagAngle = aircraftList[p].tagAngle
  /\ (SweepStep \/ lastUpdateTime' # lastUpdateTime \/ drawn' # drawn) => TagAngles' = TagAngles
  /\ TagAngles' # TagAngles =>
       /\ \E mouse \in MousePoints :
            \A p \in Planes :
              aircraftList'[p] =
                IF NearSymbol(aircraftList[p], mouse)
                THEN [aircraftList[p] EXCEPT !.tagAngle = @ + TagIncrement]
                ELSE aircraftList[p]
       /\ UNCHANGED <<lastUpdateTime, timeSinceLastSweep, canvasSize, drawn, sweepCount,
                      lastSweepTime, navData, navCanvas>>

C28_TagAnglePersists == [][C28_Step]_vars

\* the first aircraft's tag was turned twice and the second's never; sweeps
\* have moved both symbols since and the angles stand
C28_Witness ==
  /\ sweepCount >= 2
  /\ aircraftList[1].tagAngle = 2 * TagIncrement
  /\ aircraftList[2].tagAngle = 0
  /\ ~NearSymbol(aircraftList[1], <<100, 100>>)
(***************************************************************************)
(* C29: no bounds clamp.  update moves an aircraft by the great-circle     *)
(* step whether or not that leaves the geographic bounds, and no step      *)
(* removes an aircraft: one heading out of the box comes to lie outside    *)
(* [minLat, maxLat] x [minLon, maxLon], goes on being updated (it moves    *)
(* further out) and swept, and its swept display position is outside the   *)
(* canvas.                                                                 *)
(***************************************************************************)
InBox(a) ==
  /\ minLat <= a.lat /\ a.lat <= maxLat
  /\ minLon <= a.lon /\ a.lon <= maxLon

OnCanvas(a) ==
  /\ 0 <= a.displayX /\ a.displayX <= canvasSize * Milli
  /\ 0 <= a.displayY /\ a.displayY <= canvasSize * Milli

C29_Step ==
  /\ Len(aircraftList') = Len(aircraftList)
  /\ FrameStep =>
       \A p \in Planes :
         LET a == aircraftList[p]
             b == aircraftList'[p]
             pos == UpdatePosition(a.lat, a.lon, b.heading, b.speed, StepDelta)
             px == latLonToPixel(pos.lat, pos.lon, canvasSize)
         IN  /\ <<b.lat, b.lon>> = <<pos.lat, pos.lon>>
             /\ (StepDelta > 0 /\ ~InBox(a)) => <<b.lat, b.lon>> # <<a.lat, a.lon>>
             /\ SweepStep =>
                  /\ <<b.displayX, b.displayY>> = <<px.x, px.y>>
                  /\ ~InBox(b) => ~OnCanvas(b)

C29_NoBoundsClamp == [][C29_Step]_vars

\* the aircraft has left the box, was swept outside the canvas, and has
\* flown on since
C29_Witness ==
  \E p \in Planes :
    LET a == aircraftList[p]
        px == latLonToPixel(a.lat, a.lon, canvasSize)
    IN  /\ ~InBox(a)
        /\ a.lat > maxLat
        /\ sweepCount >= 1
        /\ ~OnCanvas(a)
        /\ a.displayY < 0
        /\ lastUpdateTime > lastSweepTime
        /\ px.y < a.displayY
(***************************************************************************)
(* C30: allowlist filtering.  Every runway line on the navigation canvas   *)
(* starts from a loaded runway whose airport is a key of activeAirports    *)
(* and whose identifier is in that airport's list; every localizer line    *)
(* belongs to an ILS record whose airport and runway are in the allowlist  *)
(* and whose runway record is loaded.  A loaded runway that is not in the  *)
(* allowlist is on the canvas only as the far end of the line of its       *)
(* reciprocal at the same airport, which is in the allowlist.              *)
(***************************************************************************)
Allowed(airport, id) ==
  \E listed \in DOMAIN settings.activeAirports :
    listed = airport /\ id \in settings.activeAirports[listed]

C30_AllowlistFiltering ==
  /\ \A k \in 1..Len(navCanvas.runways) :
       LET line == navCanvas.runways[k]
       IN  /\ Allowed(line.airport, line.id)
           /\ \E j \in RecordsOf(line.airport, line.id) :
                line.p1 = latLonToPixel(navData.runways[j].lat, navData.runways[j].lon,
                                        canvasSize)
           /\ line.farEnd = "reciprocal" =>
                /\ C17_IsReciprocal(line.id, line.oppositeId)
                /\ RecordsOf(line.airport, line.oppositeId) # {}
  /\ \A k \in 1..Len(navCanvas.ils) :
       LET line == navCanvas.ils[k]
       IN  /\ Allowed(line.airport, line.runway)
           /\ RecordsOf(line.airport, line.runway) # {}
           /\ \E i \in 1..Len(navData.ilsData) :
                /\ navData.ilsData[i].airport = line.airport
                /\ navData.ilsData[i].runway = line.runway

\* RW17 of LIML, loaded and not in the allowlist, is the far end of the line
\* of RW35; the records of LIMC, whose airport is not a key, give no line
C30_Witness ==
  /\ DOMAIN settings.activeAirports = {"LIML"}
  /\ RecordsOf("LIML", <<"R", "W", "1", "7">>) # {}
  /\ RecordsOf("LIMC", <<"R", "W", "3", "5">>) # {}
  /\ Len(navData.ilsData) = 2
  /\ Len(navCanvas.runways) = 1
  /\ navCanvas.runways[1].airport = "LIML"
  /\ navCanvas.runways[1].id = <<"R", "W", "3", "5">>
  /\ navCanvas.runways[1].farEnd = "reciprocal"
  /\ Len(navCanvas.ils) = 1
  /\ navCanvas.ils[1].airport = "LIML"
(***************************************************************************)
(* C31: order inside update.  In every tick the position of an aircraft is *)
(* advanced along the heading and at the speed it has after that tick's    *)
(* heading and speed interpolation, not along those from before the tick.  *)
(***************************************************************************)
C31_PositionUsesNewHeadingAndSpeed ==
  [][FrameStep =>
       \A p \in Planes :
         LET a == aircraftList[p]
             b == aircraftList'[p]
             pos == UpdatePosition(a.lat, a.lon, b.heading, b.speed, StepDelta)
         IN  <<b.lat, b.lon>> = <<pos.lat, pos.lon>>]_vars

\* the first tick of a commanded turn, flown from the start position: the
\* aircraft is where the turned heading leads, not where the old one would
C31_Witness ==
  \E p \in Planes :
    LET a == aircraftList[p]
        new == UpdatePosition(CenterLat, CenterLon, a.heading, a.speed, 900)
        old == UpdatePosition(CenterLat, CenterLon, hist[p].hdgFrom, a.speed, 900)
    IN  /\ lastUpdateTime = 1900
        /\ hist[p].hdgCmd # <<>>
        /\ hist[p].hdgSince = 900
        /\ a.heading # hist[p].hdgFrom
        /\ <<a.lat, a.lon>> = <<new.lat, new.lon>>
        /\ <<a.lat, a.lon>> # <<old.lat, old.lon>>
(***************************************************************************)
(* C32: after every gameLoop tick the sweep accumulator is at least 0 and  *)
(* less than the sweep interval, whatever the frame deltas were: a single  *)
(* delta of two intervals or more leaves it in that range as well.         *)
(***************************************************************************)
C32_AccumulatorInRange ==
  0 <= timeSinceLastSweep /\ timeSinceLastSweep < SWEEP_INTERVAL_MS

\* a frame 4000 ms after the first has just swept: the accumulator is 0
C32_Witness ==
  /\ lastUpdateTime = 5000
  /\ sweepCount = 1
  /\ lastSweepTime = lastUpdateTime
  /\ timeSinceLastSweep = 0

(***************************************************************************)
(* C33: no sweep drift.  When every frame delta is shorter than the sweep  *)
(* interval, the number of sweeps fired up to a frame equals the elapsed   *)
(* time since the first frame divided by 2000 ms, rounded down.            *)
(***************************************************************************)
Elapsed == lastUpdateTime - (CHOOSE first \in FirstFrameTimes : TRUE)

C33_NoSweepDrift ==
  lastUpdateTime > 0 => sweepCount = Elapsed \div SWEEP_INTERVAL_MS
(***************************************************************************)
(* C34: heading range.  An aircraft created with a heading in [0, 360)     *)
(* has heading, targetHdg and displayHdg in [0, 360) after every sequence  *)
(* of heading commands and update ticks; and from every such state, a      *)
(* heading command of any argument of the grid followed by a tick of any   *)
(* length of the model leaves heading and targetHdg in [0, 360).           *)
(***************************************************************************)
InCircle(h) == 0 <= h /\ h < Circle

C34_HeadingInRange ==
  \A p \in Planes :
    LET a == aircraftList[p]
    IN  /\ InCircle(a.heading) /\ InCircle(a.targetHdg) /\ InCircle(a.displayHdg)
        /\ \A d \in HeadingGrid :
             \A dt \in Deltas :
               LET u == Update(setHeading(a, d), dt)
               IN  InCircle(u.heading) /\ InCircle(u.targetHdg)

\* a turn from 001 to the left towards 355 has passed north: the heading is
\* between 355 and 360, and a sweep has shown it
C34_Witness ==
  \E p \in Planes :
    LET a == aircraftList[p]
    IN  /\ hist[p].hdgCmd = <<-5>>
        /\ hist[p].hdgFrom = 1 * Milli
        /\ a.targetHdg = 355 * Milli
        /\ a.heading > a.targetHdg
        /\ a.displayHdg = a.heading
        /\ sweepCount >= 1

(***************************************************************************)
(* C35: the true speed stays inside the commanded envelope: it is never    *)
(* below the least nor above the greatest of the initial speed and the     *)
(* speed targets set so far; an aircraft created at 100 kt or more never   *)
(* flies below 100 kt.                                                     *)
(***************************************************************************)
C35_SpeedInEnvelope ==
  \A p \in Planes :
    LET a == aircraftList[p]
    IN  /\ hist[p].spdLow <= a.speed /\ a.speed <= hist[p].spdHigh
        /\ hist[p].spdLow <= a.targetSpd /\ a.targetSpd <= hist[p].spdHigh
        /\ a.speed >= MinSpeedKt * Milli

\* 240 kt was commanded and then 50 kt: the aircraft slows down through the
\* envelope from 100 to 240 kt and is below its initial 230 kt
C35_Witness ==
  \E p \in Planes :
    LET a == aircraftList[p]
    IN  /\ hist[p].spdHigh = 240 * Milli
        /\ hist[p].spdLow = MinSpeedKt * Milli
        /\ hist[p].spdCmd = <<50>>
        /\ a.speed < 230 * Milli
        /\ a.speed > a.targetSpd
(***************************************************************************)
(* C36: a zero-length tick changes no true state.  The first gameLoop      *)
(* invocation has a delta of 0, every step with a delta of 0 leaves lat,   *)
(* lon, heading, speed and altitude of every aircraft as they were, and    *)
(* update(0) leaves them unchanged in every state, also right after a      *)
(* command has opened a capture on the heading, speed or altitude axis.    *)
(***************************************************************************)
\* the five fields the zero-length tick is about (verticalSpeed is not one)
FlownState(a) == <<a.lat, a.lon, a.heading, a.speed, a.altitude>>

ZeroTickKeeps(a) == FlownState(Update(a, 0)) = FlownState(a)

C36_FirstDeltaIsZero ==
  lastUpdateTime = 0 => \A t \in FirstFrameTimes : DeltaTimeMs(t) = 0

C36_UpdateZero ==
  \A p \in Planes :
    LET a == aircraftList[p]
    IN  /\ ZeroTickKeeps(a)
        /\ \A d \in HeadingGrid : ZeroTickKeeps(setHeading(a, d))
        /\ \A k \in SpeedGrid : ZeroTickKeeps(setSpeed(a, k))
        /\ \A f \in AltitudeGrid : ZeroTickKeeps(setAltitude(a, f))

C36_Step ==
  (lastUpdateTime' # 0 /\ StepDelta = 0) =>
     \A p \in Planes : FlownState(aircraftList'[p]) = FlownState(aircraftList[p])

C36_ZeroTickChangesNothing ==
  /\ [](C36_FirstDeltaIsZero /\ C36_UpdateZero)
  /\ [][C36_Step]_vars

\* the first frame has run on an aircraft that has a turn and a speed change
\* pending, and nothing has moved
C36_Witness ==
  \E p \in Planes :
    LET a == aircraftList[p]
    IN  /\ lastUpdateTime \in FirstFrameTimes
        /\ sweepCount = 0
        /\ a.heading # a.targetHdg /\ hist[p].hdgFrom = a.heading
        /\ a.speed # a.targetSpd /\ hist[p].spdFrom = a.speed
        /\ a.lat = CenterLat /\ a.lon = CenterLon
(***************************************************************************)
(* C37: in every rendered frame the display position of each aircraft is   *)
(* latLonToPixel, at the current canvas size, of the true position the     *)
(* aircraft had at its last sweep (or at creation), also in the frames     *)
(* between a canvas resize and the next sweep.                             *)
(***************************************************************************)
C37_Step ==
  FrameStep =>
    \A p \in Planes :
      LET a  == aircraftList'[p]
          px == latLonToPixel(hist'[p].sweptLat, hist'[p].sweptLon, canvasSize')
      IN  a.displayX = px.x /\ a.displayY = px.y

C37_DisplayFollowsProjection == [][C37_Step]_vars
(***************************************************************************)
(* C38: ILS leg matching is runway-exact.  For a localizer of a runway     *)
(* without side suffix (RW35), no leg of an approach to another runway of  *)
(* the same airport (I35R) is among the legs that are tallied to select    *)
(* the reference waypoint.                                                 *)
(***************************************************************************)
\* the runway designator in a procedure identifier: "I35R" -> "35R"
ApproachRunway(ap) == SubstringFrom(ap.id, 1)

NoSideSuffix(runwayId) == Len(runwayId) > 0 /\ IsDigit(runwayId[Len(runwayId)])

C38_RunwayExactMatching ==
  \A i \in 1..Len(navCanvas.ils) :
    LET line == navCanvas.ils[i]
    IN  NoSideSuffix(line.runway) =>
          \A j \in 1..Len(line.matchingApproaches) :
            ApproachRunway(line.matchingApproaches[j]) = SubstringFrom(line.runway, 2)
====
